---- MODULE Spec2Model ----
(***************************************************************************)
(* punp: batch text rewriting.  Model of the parallel processing engine:   *)
(*   - ACAutomaton (build_from_map / apply_replace)                        *)
(*   - FileProcessor (load, build_protected_intervals, create_pages,       *)
(*     process_page, process_files, writeback_worker, writeback)           *)
(*   - ThreadPool (worker_thread, submit, submit_with_callback, scaling)   *)
(*                                                                         *)
(* Text is a sequence of one-character strings.  Positions are 0-based as  *)
(* in the source; text[p + 1] is the scalar at source position p.          *)
(*                                                                         *)
(* The specifications share the variables:                                 *)
(*   SpecMatcher  apply_replace run step by step on enumerated texts       *)
(*   SpecPipe     load -> scan -> page -> process -> writeback of one file *)
(*                run sequentially on enumerated file contents             *)
(*   Spec         process_files on a batch, with the pool workers, the     *)
(*                writeback dispatcher and the calling thread interleaved  *)
(*   SpecFault    Spec with allocation failures inside process_page        *)
(*   SpecLife     Spec followed by ~FileProcessor and ThreadPool::shutdown *)
(*   SpecSum      Spec on batches of a file with two counting pages        *)
(*   SpecWrite    Spec with writebacks that fail                           *)
(*   SpecPool     the ThreadPool alone: submit, submit_with_callback,      *)
(*                worker_thread, shutdown, tasks that return or throw      *)
(*   SpecPoolFair SpecPool with every thread scheduled                     *)
(*   SpecSample   is_text_file on files given by size and NUL count        *)
(*   SpecScan     build_protected_intervals, one loop iteration per step   *)
(*                followed by paging and processing of the scanned text   *)
(*   SpecPager    create_pages, one loop iteration per step                *)
(*   SpecParse    the configuration parser on PROTECT statements           *)
(***************************************************************************)
EXTENDS Integers, Sequences, FiniteSets, TLC

(***************************************************************************)
(* Bounds of the model                                                     *)
(***************************************************************************)
\* longest text handed to apply_replace in SpecMatcher
MaxTextLen == 4
\* longest file (in scalars) enumerated in SpecPipe
MaxFileLen == 5
\* largest batch handed to process_files in Spec
MaxFiles == 2
\* largest max_threads argument and hardware_concurrency() tried in Spec
MaxThreadsArg == 1
MaxHardware == 1
\* most allocation failures injected into the page tasks of a run (SpecFault)
MaxFaults == 2

(***************************************************************************)
(* Program constants.  PageConfig::SIZE is 16 * 1024 and the snapping      *)
(* window is 100 in the source; both are scaled down so that files of a    *)
(* few scalars span several pages.  size_t arithmetic wraps at SizeMod     *)
(* (2^64 in the source; any value above every position behaves alike).     *)
(***************************************************************************)
PAGE_SIZE == 4
SNAP_WINDOW == 3
SizeMod == 2^20
npos == SizeMod - 1
SAMPLE_SIZE == 1024

NUL == "0"
NL == "\n"
SP == " "

(***************************************************************************)
(* Text helpers                                                            *)
(***************************************************************************)
Min(a, b) == IF a < b THEN a ELSE b
Max(a, b) == IF a > b THEN a ELSE b

\* std::basic_string::substr(pos, n) for pos <= size
Substr(text, pos, n) == SubSeq(text, pos + 1, Min(pos + n, Len(text)))

\* view_t(text.data() + pos, len) == view_t(marker), under pos + len <= size
StartsWithAt(text, pos, marker) ==
    /\ pos + Len(marker) <= Len(text)
    /\ \A k \in 1..Len(marker) : text[pos + k] = marker[k]

\* std::basic_string::find(needle, from): first index >= from, npos if none
Find(text, needle, from) ==
    LET hits == {p \in from..Len(text) : StartsWithAt(text, p, needle)}
    IN  IF hits = {} THEN npos ELSE CHOOSE p \in hits : \A q \in hits : p <= q

\* std::basic_string::rfind(ch, from): last index <= from holding ch
RFind(text, ch, from) ==
    LET hits == {p \in 0..Min(from, Len(text) - 1) : text[p + 1] = ch}
    IN  IF hits = {} THEN npos ELSE CHOOSE p \in hits : \A q \in hits : p >= q

RECURSIVE Concat(_)
Concat(ss) == IF ss = <<>> THEN <<>> ELSE Head(ss) \o Concat(Tail(ss))

RECURSIVE SumSeq(_)
SumSeq(ns) == IF ns = <<>> THEN 0 ELSE Head(ns) + SumSeq(Tail(ns))

\* all sequences over alphabet A of length at most n
RECURSIVE TextsUpTo(_, _)
TextsUpTo(A, n) ==
    IF n = 0 THEN {<<>>}
    ELSE LET shorter == TextsUpTo(A, n - 1)
         IN  shorter \cup {Append(t, c) : t \in {s \in shorter : Len(s) = n - 1}, c \in A}

(***************************************************************************)
(* ACAutomaton.  A ReplacementMap is a set of <<pattern, replacement>>     *)
(* pairs with pairwise distinct patterns.  A trie node is identified with  *)
(* the prefix that leads to it; the root is <<>>.                          *)
(***************************************************************************)
Patterns(rep_map) == {r[1] : r \in rep_map}

\* build_from_map: the root and the nodes created for the non-empty patterns
TrieNodes(rep_map) ==
    {<<>>} \cup UNION {{SubSeq(pat, 1, k) : k \in 0..Len(pat)} : pat \in Patterns(rep_map)}

\* Node::pattern_len of the node reached by prefix
PatternLen(rep_map, node) ==
    IF node # <<>> /\ node \in Patterns(rep_map) THEN Len(node) ELSE 0

\* Node::replacement of a terminal node
Replacement(rep_map, node) == (CHOOSE r \in rep_map : r[1] = node)[2]

NoMatch == [found |-> FALSE, match_length |-> 0, replacement |-> <<>>]

\* apply_replace, the inner for loop: walk from the root along text[i..]
\* and stop at the first node that completes a pattern
RECURSIVE TrieWalk(_, _, _, _)
TrieWalk(rep_map, text, i, cur) ==
    IF i >= Len(text) THEN NoMatch
    ELSE LET child == Append(cur, text[i + 1])
         IN  IF child \notin TrieNodes(rep_map) THEN NoMatch
             ELSE IF PatternLen(rep_map, child) > 0
                  THEN [found |-> TRUE,
                        match_length |-> PatternLen(rep_map, child),
                        replacement |-> Replacement(rep_map, child)]
                  ELSE TrieWalk(rep_map, text, i + 1, child)

\* the state of one apply_replace call before its while loop
MatcherStart(rep_map, text) ==
    [text |-> text, result |-> <<>>, text_pos |-> 0, replacement_count |-> 0,
     copy_start |-> 0, copy_end |-> 0]

\* flush_copy
FlushCopy(s) ==
    IF s.copy_end > s.copy_start
    THEN [s EXCEPT !.result = @ \o SubSeq(s.text, s.copy_start + 1, s.copy_end),
                   !.copy_start = s.copy_end]
    ELSE s

\* MatcherIter with the cursor moved by one after a replacement
MatcherIter_RescanInsideMatch(rep_map, s) ==
    LET m == TrieWalk(rep_map, s.text, s.text_pos, <<>>)
    IN  IF m.found
        THEN LET f == FlushCopy(s)
                 p == s.text_pos + 1
             IN  [f EXCEPT !.result = @ \o m.replacement,
                           !.text_pos = p,
                           !.copy_start = p,
                           !.copy_end = p,
                           !.replacement_count = @ + 1]
        ELSE [s EXCEPT !.copy_end = s.text_pos + 1, !.text_pos = @ + 1]

\* one iteration of the while loop of apply_replace
MatcherIter(rep_map, s) ==
    LET m == TrieWalk(rep_map, s.text, s.text_pos, <<>>)
    IN  IF m.found
        THEN LET f == FlushCopy(s)
                 p == s.text_pos + m.match_length
             IN  [f EXCEPT !.result = @ \o m.replacement,
                           !.text_pos = p,
                           !.copy_start = p,
                           !.copy_end = p,
                           !.replacement_count = @ + 1]
        ELSE [s EXCEPT !.copy_end = s.text_pos + 1, !.text_pos = @ + 1]

\* the end of apply_replace: final flush, swap only when something changed
MatcherFinish(s) ==
    LET f == FlushCopy(s)
    IN  [text |-> IF f.replacement_count > 0 THEN f.result ELSE f.text,
         n_rep |-> f.replacement_count]

RECURSIVE MatcherLoop(_, _)
MatcherLoop(rep_map, s) ==
    IF s.text_pos < Len(s.text) THEN MatcherLoop(rep_map, MatcherIter(rep_map, s)) ELSE s

\* ACAutomaton::apply_replace as a function: the new text and the count
apply_replace(rep_map, text) ==
    IF text = <<>> THEN [text |-> text, n_rep |-> 0]
    ELSE MatcherFinish(MatcherLoop(rep_map, MatcherStart(rep_map, text)))

(***************************************************************************)
(* FileProcessor: loading.  A file on disk is [exists, bytes]; bytes is    *)
(* the decoded scalar sequence, NUL standing for a zero byte.              *)
(***************************************************************************)
\* is_text_file that still accepts a file with exactly 1% NUL bytes
is_text_file_OnePercentIsText(file) ==
    IF ~file.exists THEN FALSE
    ELSE LET bytes_read == Min(Len(file.bytes), SAMPLE_SIZE)
             null_bytes == Cardinality({k \in 1..bytes_read : file.bytes[k] = NUL})
         IN  null_bytes * 100 <= Max(bytes_read, 1)

\* is_text_file: fewer than 1% NUL among the first SAMPLE_SIZE bytes
is_text_file(file) ==
    IF ~file.exists THEN FALSE
    ELSE LET bytes_read == Min(Len(file.bytes), SAMPLE_SIZE)
             null_bytes == Cardinality({k \in 1..bytes_read : file.bytes[k] = NUL})
         IN  (null_bytes * 100) \div Max(bytes_read, 1) < 1

\* the std::getline loop of load_file_content: lines are joined by '\n',
\* a final line terminator is not part of the content
RECURSIVE GetLineLoop(_, _, _)
GetLineLoop(rest, content, first_line) ==
    IF rest = <<>> THEN content
    ELSE LET nls == {k \in 1..Len(rest) : rest[k] = NL}
             cut == IF nls = {} THEN Len(rest) + 1 ELSE CHOOSE k \in nls : \A q \in nls : k <= q
             line == SubSeq(rest, 1, cut - 1)
             joined == (IF first_line THEN content ELSE Append(content, NL)) \o line
         IN  GetLineLoop(SubSeq(rest, cut + 1, Len(rest)), joined, FALSE)

\* load_file_content: nullptr (ok = FALSE) for a binary or unreadable file
load_file_content(file) ==
    IF ~is_text_file(file) THEN [ok |-> FALSE, content |-> <<>>]
    ELSE [ok |-> TRUE, content |-> GetLineLoop(file.bytes, <<>>, TRUE)]

(***************************************************************************)
(* FileProcessor::build_protected_intervals.  regions is the configured    *)
(* sequence of <<start_marker, end_marker>> pairs.                         *)
(***************************************************************************)
\* Interval whose end is one past the last scalar of the end marker
Interval_EndExclusive(s_first, e_last, s_len, e_len) ==
    [start_first |-> s_first, end_last |-> e_last + 1,
     start_marker_len |-> s_len, end_marker_len |-> e_len]

Interval(s_first, e_last, s_len, e_len) ==
    [start_first |-> s_first, end_last |-> e_last,
     start_marker_len |-> s_len, end_marker_len |-> e_len]

RECURSIVE ScanLoop(_, _, _, _)
ScanLoop(text, regions, pos, intervals) ==
    IF pos >= Len(text) THEN intervals
    ELSE IF Len(text) - pos < Len(regions[1][1]) THEN intervals
    ELSE LET hits == {k \in 1..Len(regions) : StartsWithAt(text, pos, regions[k][1])}
         IN  IF hits = {} THEN ScanLoop(text, regions, pos + 1, intervals)
             ELSE LET k == CHOOSE h \in hits : \A q \in hits : h <= q
                      start_marker == regions[k][1]
                      end_marker == regions[k][2]
                      end_begin == Find(text, end_marker, pos + Len(start_marker))
                  IN  IF end_begin = npos THEN intervals
                      ELSE ScanLoop(text, regions, end_begin + Len(end_marker),
                                    Append(intervals,
                                           Interval(pos,
                                                    (end_begin + Len(end_marker) - 1) % SizeMod,
                                                    Len(start_marker), Len(end_marker))))

\* the final std::sort by start_first
RECURSIVE SortByStart(_)
SortByStart(intervals) ==
    IF intervals = <<>> THEN <<>>
    ELSE LET least == CHOOSE k \in 1..Len(intervals) :
                          \A q \in 1..Len(intervals) :
                              intervals[k].start_first < intervals[q].start_first
                              \/ (intervals[k].start_first = intervals[q].start_first /\ k <= q)
             others == [j \in 1..Len(intervals) - 1 |->
                           IF j < least THEN intervals[j] ELSE intervals[j + 1]]
         IN  <<intervals[least]>> \o SortByStart(others)

build_protected_intervals(text, regions) ==
    IF regions = <<>> \/ text = <<>> THEN <<>>
    ELSE SortByStart(ScanLoop(text, regions, 0, <<>>))

(***************************************************************************)
(* FileProcessor::create_pages                                             *)
(***************************************************************************)
\* Page that is left with the constructor's is_protected = false
Page_NeverProtected(pid, start_pos, end_pos, is_protected) ==
    [pid |-> pid, start_pos |-> start_pos, end_pos |-> end_pos, is_protected |-> FALSE]

Page(pid, start_pos, end_pos, is_protected) ==
    [pid |-> pid, start_pos |-> start_pos, end_pos |-> end_pos,
     is_protected |-> is_protected]

\* the boundary search of a regular page: newline first, then space, both
\* strictly after search_start
SnapBoundary(content, start_pos, end_pos) ==
    LET search_start == Max(start_pos, (end_pos - SNAP_WINDOW) % SizeMod)
        line_break_pos == RFind(content, NL, end_pos)
        space_pos == RFind(content, SP, end_pos)
    IN  IF line_break_pos # npos /\ line_break_pos > search_start THEN line_break_pos + 1
        ELSE IF space_pos # npos /\ space_pos > search_start THEN space_pos + 1
        ELSE end_pos

\* RegularPageEnd whose tentative end is not limited to the content size
RegularPageEnd_NoSizeClamp(content, start_pos, has_protected_ahead, next_start) ==
    LET content_size == Len(content)
        tentative == start_pos + PAGE_SIZE
        clamped == IF has_protected_ahead /\ tentative > next_start THEN next_start ELSE tentative
    IN  IF clamped < content_size /\ (~has_protected_ahead \/ clamped < next_start)
        THEN LET snapped == SnapBoundary(content, start_pos, clamped)
             IN  IF has_protected_ahead /\ snapped > next_start THEN next_start ELSE snapped
        ELSE clamped

\* RegularPageEnd that snaps the tentative end without first stopping it at
\* the next protected interval
RegularPageEnd_NoIntervalClamp(content, start_pos, has_protected_ahead, next_start) ==
    LET content_size == Len(content)
        tentative == Min(start_pos + PAGE_SIZE, content_size)
    IN  IF tentative < content_size
        THEN SnapBoundary(content, start_pos, tentative)
        ELSE tentative

\* the end of the regular page that starts at start_pos
RegularPageEnd(content, start_pos, has_protected_ahead, next_start) ==
    LET content_size == Len(content)
        tentative == Min(start_pos + PAGE_SIZE, content_size)
        clamped == IF has_protected_ahead /\ tentative > next_start THEN next_start ELSE tentative
    IN  IF clamped < content_size /\ (~has_protected_ahead \/ clamped < next_start)
        THEN LET snapped == SnapBoundary(content, start_pos, clamped)
             IN  IF has_protected_ahead /\ snapped > next_start THEN next_start ELSE snapped
        ELSE clamped

RECURSIVE PagerLoop(_, _, _, _, _)
PagerLoop(content, intervals, start_pos, interval_idx, pages) ==
    IF start_pos >= Len(content) THEN pages
    ELSE LET in_range == interval_idx < Len(intervals)
             next_start == IF in_range THEN intervals[interval_idx + 1].start_first ELSE 0
             has_protected_ahead == in_range /\ next_start >= start_pos
         IN  IF has_protected_ahead /\ start_pos = next_start
             THEN LET end_pos == intervals[interval_idx + 1].end_last + 1
                  IN  PagerLoop(content, intervals, end_pos, interval_idx + 1,
                                Append(pages, Page(Len(pages), start_pos, end_pos, TRUE)))
             ELSE LET end_pos == RegularPageEnd(content, start_pos, has_protected_ahead, next_start)
                  IN  PagerLoop(content, intervals, end_pos, interval_idx,
                                Append(pages, Page(Len(pages), start_pos, end_pos, FALSE)))

create_pages(content, intervals) ==
    IF content = <<>> THEN <<>> ELSE PagerLoop(content, intervals, 0, 0, <<>>)

\* preprocess_file: load, scan, page; ok = FALSE stands for the null pair
preprocess_file(file, regions) ==
    LET loaded == load_file_content(file)
        intervals == build_protected_intervals(loaded.content, regions)
    IN  IF loaded.ok
        THEN [ok |-> TRUE, content |-> loaded.content, protected_interval |-> intervals,
              pages |-> create_pages(loaded.content, intervals)]
        ELSE [ok |-> FALSE, content |-> <<>>, protected_interval |-> <<>>, pages |-> <<>>]

(***************************************************************************)
(* FileProcessor::process_page, the text it produces for one page, and     *)
(* FileProcessor::writeback, the bytes it writes                           *)
(***************************************************************************)
\* PageText that runs the matcher on protected pages as well
PageText_IgnoreProtected(rep_map, content, page) ==
    apply_replace(rep_map, Substr(content, page.start_pos, page.end_pos - page.start_pos))

PageText(rep_map, content, page) ==
    LET extracted == Substr(content, page.start_pos, page.end_pos - page.start_pos)
    IN  IF page.is_protected THEN [text |-> extracted, n_rep |-> 0]
        ELSE apply_replace(rep_map, extracted)

\* WritebackBytes with the pages taken in reverse order
RECURSIVE ReverseSeq(_)
ReverseSeq(ss) == IF ss = <<>> THEN <<>> ELSE Append(ReverseSeq(Tail(ss)), Head(ss))

WritebackBytes_Reversed(processed_pages) == Append(Concat(ReverseSeq(processed_pages)), NL)

\* the stream written by writeback: every processed page in order, then '\n'
WritebackBytes(processed_pages) == Append(Concat(processed_pages), NL)

\* the FileContent returned by preprocess_file: create_pages has set ref_cnt
\* and sized processed_pages
FileContentOf(pre) ==
    [content |-> pre.content,
     protected_interval |-> pre.protected_interval,
     ref_cnt |-> Len(pre.pages),
     processed_pages |-> [j \in 1..Len(pre.pages) |-> <<>>],
     total_replacements |-> 0]

\* writeback: the file after the call (unchanged when nothing was replaced;
\* opening the file for writing is assumed to succeed)
writeback(file, processed_pages, total_replacements) ==
    IF total_replacements = 0 THEN file
    ELSE [file EXCEPT !.bytes = WritebackBytes(processed_pages)]


(***************************************************************************)
(* State                                                                   *)
(***************************************************************************)
VARIABLES
    \* SpecMatcher: one apply_replace call
    m_rules,      \* the ReplacementMap the automaton was built from
    m_pc,         \* "enter", "loop", "flush", "done"
    m_state,      \* the locals of apply_replace
    m_out,        \* the text left in the argument and the returned count
    m_events,     \* history: one entry per loop iteration
    \* SpecPipe: one file taken through the stages in order
    pipe,
    \* Spec: one process_files call
    disk,            \* the files of the batch on disk, in input order
    nworkers,        \* ThreadPool::_workers.size()
    active_threads,  \* ThreadPool::_active_threads
    tasks,           \* ThreadPool::_tasks, the FIFO task queue
    wk,              \* per pool worker: the task it runs and where it is in it
    fcs,             \* the FileContent objects, by file index
    file_contents,   \* process_files local: is slot i set (non-null)
    file_pages,      \* process_files local: the pages of file i
    page_results,    \* process_files local: the PageResult slots of file i
    pending_tasks,   \* process_files local: the atomic pending counter
    caller,          \* the calling thread: position in process_files
    results,         \* the vector process_files returns
    wbq,             \* FileProcessor::_writeback_queue
    disp,            \* the writeback dispatcher thread
    hist,            \* history: the input files, pages stored, notifications, writes
    ub               \* outcome of a signal on the destroyed completion_cv

matcherVars == <<m_rules, m_pc, m_state, m_out, m_events>>
pipeVars == <<pipe>>
procVars == <<disk, nworkers, active_threads, tasks, wk, fcs, file_contents, file_pages,
              page_results, pending_tasks, caller, results, wbq, disp, hist, ub>>
vars == <<m_rules, m_pc, m_state, m_out, m_events, pipe,
          disk, nworkers, active_threads, tasks, wk, fcs, file_contents, file_pages,
          page_results, pending_tasks, caller, results, wbq, disp, hist, ub>>

(***************************************************************************)
(* Configurations tried                                                    *)
(***************************************************************************)
\* replacement maps handed to build_from_map in SpecMatcher
RuleSets ==
    { {<< <<"a", "b">>, <<"X">> >>, << <<"a", "b", "c">>, <<"Y">> >>},
      {<< <<"a", "a">>, <<"b">> >>, << <<"b">>, <<"a", "a">> >>},
      {<< <<"a">>, <<>> >>, << <<"b", "c">>, <<"a">> >>},
      {} }

MatcherAlphabet == {"a", "b", "c"}

\* scenario S2 of the specification
S2Text == <<"x", "a", "b", "c", "y">>

MatcherTexts == TextsUpTo(MatcherAlphabet, MaxTextLen) \cup {S2Text}

MatcherIdle ==
    /\ m_rules = {}
    /\ m_pc = "idle"
    /\ m_state = MatcherStart({}, <<>>)
    /\ m_out = [text |-> <<>>, n_rep |-> 0]
    /\ m_events = <<>>

PipeIdle == pipe = [pc |-> "idle"]

ProcIdle ==
    /\ disk = <<>>
    /\ nworkers = 0
    /\ active_threads = 0
    /\ tasks = <<>>
    /\ wk = <<>>
    /\ fcs = <<>>
    /\ file_contents = <<>>
    /\ file_pages = <<>>
    /\ page_results = <<>>
    /\ pending_tasks = 0
    /\ caller = [pc |-> "idle"]
    /\ results = <<>>
    /\ wbq = <<>>
    /\ disp = [pc |-> "idle"]
    /\ hist = <<>>
    /\ ub = "none"

\* replacement maps and protected regions of SpecPipe
PipeRuleSets ==
    { {<< <<",">>, <<";">> >>, << <<"a", ",">>, <<"X">> >>},
      {} }

PipeRegionSets ==
    { << << <<"#">>, <<"#">> >> >>,
      << << <<"#", "a">>, <<>> >>, << <<"#">>, <<"#">> >> >> }

PipeAlphabet == {"a", ",", "#", SP, NL}

PipeFiles == {[exists |-> TRUE, bytes |-> b] : b \in TextsUpTo(PipeAlphabet, MaxFileLen)}

(***************************************************************************)
(* SpecMatcher: ACAutomaton::apply_replace, one loop iteration per step    *)
(***************************************************************************)
InitMatcher ==
    /\ m_rules \in RuleSets
    /\ m_pc = "enter"
    /\ \E text \in MatcherTexts : m_state = MatcherStart(m_rules, text)
    /\ m_out = [text |-> <<>>, n_rep |-> 0]
    /\ m_events = <<>>
    /\ PipeIdle
    /\ ProcIdle

\* if (!root || text.empty()) return 0;
MatcherEnter ==
    /\ m_pc = "enter"
    /\ IF m_state.text = <<>>
       THEN /\ m_pc' = "done"
            /\ m_out' = [text |-> m_state.text, n_rep |-> 0]
       ELSE /\ m_pc' = "loop"
            /\ UNCHANGED m_out
    /\ UNCHANGED <<m_rules, m_state, m_events, pipeVars, procVars>>

\* one iteration of while (text_pos < text.length())
MatcherStep ==
    /\ m_pc = "loop"
    /\ m_state.text_pos < Len(m_state.text)
    /\ m_state' = MatcherIter(m_rules, m_state)
    /\ m_events' = Append(m_events,
                          [pos |-> m_state.text_pos,
                           len |-> m_state'.text_pos - m_state.text_pos,
                           replaced |-> m_state'.replacement_count # m_state.replacement_count])
    /\ UNCHANGED <<m_rules, m_pc, m_out, pipeVars, procVars>>

\* the loop exit, the final flush_copy and the swap
MatcherReturn ==
    /\ m_pc = "loop"
    /\ m_state.text_pos >= Len(m_state.text)
    /\ m_pc' = "done"
    /\ m_out' = MatcherFinish(m_state)
    /\ UNCHANGED <<m_rules, m_state, m_events, pipeVars, procVars>>

NextMatcher == MatcherEnter \/ MatcherStep \/ MatcherReturn

SpecMatcher == InitMatcher /\ [][NextMatcher]_vars

(***************************************************************************)
(* Properties of apply_replace (SpecMatcher)                               *)
(***************************************************************************)
\* the configured patterns that are prefixes of text[pos..]
PrefixesAt(rep_map, text, pos) ==
    {pat \in Patterns(rep_map) : pat # <<>> /\ StartsWithAt(text, pos, pat)}

\* what an iteration contributes to the output, read off the input text
EventEmit(rep_map, text, e) ==
    LET matched == SubSeq(text, e.pos + 1, e.pos + e.len)
    IN  IF e.replaced /\ matched \in Patterns(rep_map)
        THEN Replacement(rep_map, matched)
        ELSE <<text[e.pos + 1]>>

S2Rules == {<< <<"a", "b">>, <<"X">> >>, << <<"a", "b", "c">>, <<"Y">> >>}

\* C7 (as claimed): wherever a replacement fires, the pattern applied is the
\* longest configured pattern that is a prefix of text[i..]; scenario S2
\* (ab->X, abc->Y on "xabcy") returns "xYy" with count 1.
C7_LongestMatch ==
    /\ \A k \in 1..Len(m_events) :
           LET e == m_events[k]
               cands == PrefixesAt(m_rules, m_state.text, e.pos)
           IN  e.replaced => \A pat \in cands : Len(pat) <= e.len
    /\ (m_pc = "done" /\ m_rules = S2Rules /\ m_state.text = S2Text)
           => m_out = [text |-> <<"x", "Y", "y">>, n_rep |-> 1]

\* C8: the iterations tile the input left to right: each starts where the
\* previous one ended, a replacement consumes exactly the length of a
\* pattern that is a prefix at its position, a position where no pattern is
\* a prefix consumes one scalar that is emitted verbatim, the output is the
\* concatenation of what the iterations emit, and the returned count is the
\* number of replacements.
C8_NonOverlap ==
    LET text == m_state.text
        n == Len(m_events)
    IN  /\ \A k \in 1..n :
               LET e == m_events[k]
                   cands == PrefixesAt(m_rules, text, e.pos)
               IN  /\ e.pos = (IF k = 1 THEN 0 ELSE m_events[k - 1].pos + m_events[k - 1].len)
                   /\ e.replaced => \E pat \in cands : Len(pat) = e.len
                   /\ ~e.replaced => (e.len = 1 /\ cands = {})
        /\ m_pc = "done" =>
               /\ (IF n = 0 THEN 0 ELSE m_events[n].pos + m_events[n].len) = Len(text)
               /\ m_out.n_rep = Cardinality({k \in 1..n : m_events[k].replaced})
               /\ m_out.text = Concat([k \in 1..n |-> EventEmit(m_rules, text, m_events[k])])

\* a finished call in which a replacement of a pattern of two or more
\* scalars was followed by a verbatim scalar
C8_Witness ==
    /\ m_pc = "done"
    /\ \E k \in 1..Len(m_events) - 1 :
           /\ m_events[k].replaced
           /\ m_events[k].len >= 2
           /\ ~m_events[k + 1].replaced

(***************************************************************************)
(* SpecPipe: one file through preprocess_file, process_page for each of    *)
(* its pages (in any order) and writeback                                  *)
(***************************************************************************)
InitPipe ==
    /\ \E file \in PipeFiles, rep_map \in PipeRuleSets, regions \in PipeRegionSets :
           pipe = [pc |-> "preprocess", file |-> file, rules |-> rep_map,
                   regions |-> regions, disk |-> file]
    /\ MatcherIdle
    /\ ProcIdle

\* preprocess_file; a null result or an empty page list ends the file
PipePreprocess ==
    /\ pipe.pc = "preprocess"
    /\ LET pre == preprocess_file(pipe.file, pipe.regions)
       IN  pipe' = [pc |-> IF pre.ok /\ pre.pages # <<>> THEN "pages" ELSE "done",
                    file |-> pipe.file, rules |-> pipe.rules, regions |-> pipe.regions,
                    disk |-> pipe.disk,
                    loaded |-> pre.ok,
                    fc |-> FileContentOf(pre),
                    pages |-> pre.pages,
                    processed |-> {},
                    page_n_rep |-> [j \in 1..Len(pre.pages) |-> 0],
                    notified |-> <<>>]
    /\ UNCHANGED <<matcherVars, procVars>>

\* process_page for page j (pid j - 1): add the count, store the slice,
\* decrement ref_cnt and notify the writeback when it reaches zero
PipePage(j) ==
    /\ pipe.pc = "pages"
    /\ j \in 1..Len(pipe.pages)
    /\ j \notin pipe.processed
    /\ LET r == PageText(pipe.rules, pipe.fc.content, pipe.pages[j])
           total == pipe.fc.total_replacements + r.n_rep
           remaining == pipe.fc.ref_cnt - 1
       IN  pipe' = [pipe EXCEPT
                        !.fc.total_replacements = total,
                        !.fc.processed_pages[j] = r.text,
                        !.fc.ref_cnt = remaining,
                        !.page_n_rep[j] = r.n_rep,
                        !.processed = @ \cup {j},
                        !.notified = IF remaining = 0 THEN <<total>> ELSE @,
                        !.pc = IF remaining = 0 THEN "writeback" ELSE "pages"]
    /\ UNCHANGED <<matcherVars, procVars>>

\* writeback of the notified file
PipeWriteback ==
    /\ pipe.pc = "writeback"
    /\ pipe' = [pipe EXCEPT
                    !.disk = writeback(pipe.disk, pipe.fc.processed_pages, pipe.notified[1]),
                    !.pc = "done"]
    /\ UNCHANGED <<matcherVars, procVars>>

NextPipe ==
    \/ PipePreprocess
    \/ \E j \in 1..MaxFileLen : PipePage(j)
    \/ PipeWriteback

SpecPipe == InitPipe /\ [][NextPipe]_vars

(***************************************************************************)
(* Properties of the per-file pipeline (SpecPipe)                          *)
(***************************************************************************)
PipePaged == pipe.pc \in {"pages", "writeback", "done"}

\* where position start_pos of the content lies in the file after the run
OutputOffset(j) ==
    IF pipe.fc.total_replacements = 0 THEN pipe.pages[j].start_pos
    ELSE Len(Concat(SubSeq(pipe.fc.processed_pages, 1, j - 1)))

\* C5: every interval found by the scanner has a page with exactly its
\* bounds that is marked protected; once that page is processed its slot
\* holds the original text and its count is 0; after the run the file holds
\* the original text of the interval at the corresponding offset.
C5_ProtectedInviolable ==
    PipePaged =>
        \A k \in 1..Len(pipe.fc.protected_interval) :
            LET iv == pipe.fc.protected_interval[k]
                original == SubSeq(pipe.fc.content, iv.start_first + 1, iv.end_last + 1)
            IN  \E j \in 1..Len(pipe.pages) :
                    /\ pipe.pages[j].is_protected
                    /\ pipe.pages[j].start_pos = iv.start_first
                    /\ pipe.pages[j].end_pos = iv.end_last + 1
                    /\ j \in pipe.processed =>
                           /\ pipe.fc.processed_pages[j] = original
                           /\ pipe.page_n_rep[j] = 0
                    /\ pipe.pc = "done" =>
                           SubSeq(pipe.disk.bytes, OutputOffset(j) + 1,
                                  OutputOffset(j) + Len(original)) = original

\* a rewritten file with a protected interval that has a pattern inside
C5_Witness ==
    /\ pipe.pc = "done"
    /\ pipe.pages # <<>>
    /\ pipe.fc.total_replacements > 0
    /\ pipe.disk # pipe.file
    /\ \E k \in 1..Len(pipe.fc.protected_interval) :
           LET iv == pipe.fc.protected_interval[k]
           IN  \E q \in iv.start_first..iv.end_last :
                   PrefixesAt(pipe.rules, pipe.fc.content, q) # {}

\* the Matcher applied once to each whole non-protected span, protected
\* spans copied
RECURSIVE SpanApply(_, _, _, _, _)
SpanApply(rep_map, content, intervals, pos, k) ==
    IF pos >= Len(content) THEN [text |-> <<>>, n_rep |-> 0]
    ELSE IF k <= Len(intervals) /\ intervals[k].start_first = pos
    THEN LET rest == SpanApply(rep_map, content, intervals, intervals[k].end_last + 1, k + 1)
         IN  [text |-> SubSeq(content, pos + 1, intervals[k].end_last + 1) \o rest.text,
              n_rep |-> rest.n_rep]
    ELSE LET span_end == IF k <= Len(intervals) THEN intervals[k].start_first ELSE Len(content)
             here == apply_replace(rep_map, SubSeq(content, pos + 1, span_end))
             rest == SpanApply(rep_map, content, intervals, span_end, k)
         IN  [text |-> here.text \o rest.text, n_rep |-> here.n_rep + rest.n_rep]

\* C6 (as claimed): when all pages of a file are processed, the processed
\* pages concatenated in page order equal the Matcher applied once to each
\* whole non-protected span with protected spans copied, and the total
\* count is the same.
C6_Tiling ==
    (pipe.pc \in {"writeback", "done"} /\ pipe.pages # <<>>) =>
        LET whole == SpanApply(pipe.rules, pipe.fc.content, pipe.fc.protected_interval, 0, 1)
        IN  /\ Concat(pipe.fc.processed_pages) = whole.text
            /\ pipe.fc.total_replacements = whole.n_rep

(***************************************************************************)
(* Spec: FileProcessor::process_files with the pool workers, the writeback *)
(* dispatcher and the calling thread.  A file's path is its index in the   *)
(* batch.                                                                  *)
(***************************************************************************)
\* the ReplacementMap and the protected regions the FileProcessor was built with
ProcRules == {<< <<",">>, <<";">> >>}
ProcRegions == << << <<"#">>, <<"#">> >> >>

\* the files a batch is made of: a binary file, an empty file, a one-page
\* file without any pattern, a two-page file with a pattern outside and
\* inside a protected region, a path that cannot be opened
BinaryFile == [exists |-> TRUE, bytes |-> <<NUL, "a">>]
EmptyFile == [exists |-> TRUE, bytes |-> <<>>]
PlainFile == [exists |-> TRUE, bytes |-> <<"a", "b", NL>>]
RuleFile == [exists |-> TRUE, bytes |-> <<"a", ",", "#", ",", "#">>]
\* a path that cannot be opened
MissingFile == [exists |-> FALSE, bytes |-> <<>>]
FileKinds == {BinaryFile, EmptyFile, PlainFile, RuleFile, MissingFile}

Batches == UNION {[1..n -> FileKinds] : n \in 0..MaxFiles}

\* Hardware::AUTO_NUM_THREADS for a hardware_concurrency() of hw
AUTO_NUM_THREADS(hw) == (hw * 3) \div 2

\* process_files: the number handed to ThreadPool::scaling
NumThreads(max_threads, num_files, hw) ==
    IF max_threads = 0
    THEN Max(Min(num_files * 2, AUTO_NUM_THREADS(hw)), 1)
    ELSE Min(max_threads, AUTO_NUM_THREADS(hw))

\* ThreadPool::scaling: the pool size after the call
scaling(pool_size, n_inc) == IF n_inc = 0 THEN pool_size ELSE pool_size + n_inc

\* ThreadPool::submit / submit_with_callback on a running pool
submit(queue, task) == Append(queue, task)

IdleWorker == [pc |-> "idle"]

\* a value-initialized PageResult (page_results[i].resize)
DefaultPageResult ==
    [file_path |-> 0, page_id |-> 0, processed_content |-> <<>>, n_rep |-> 0,
     ok |-> TRUE, err_msg |-> <<>>]

\* the FileContent slot of a file that has not been preprocessed
NoFileContent ==
    [content |-> <<>>, protected_interval |-> <<>>, ref_cnt |-> 0,
     processed_pages |-> <<>>, total_replacements |-> 0]

\* StoreSlot that fills the slots in the order the pages finish
StoreSlot_ArrivalOrder(fc, pid, text) ==
    [fc EXCEPT !.processed_pages[Len(fc.processed_pages) - fc.ref_cnt + 1] = text]

\* processed_pages[page.pid] = result.processed_content
StoreSlot(fc, pid, text) == [fc EXCEPT !.processed_pages[pid + 1] = text]

\* ErrorMessages that puts each new error in front of the earlier ones
RECURSIVE ErrorMessages_NewestFirst(_, _)
ErrorMessages_NewestFirst(prs, acc) ==
    IF prs = <<>> THEN acc
    ELSE LET pr == Head(prs)
             sep == IF acc = <<>> THEN <<>> ELSE <<"; ">>
         IN  ErrorMessages_NewestFirst(Tail(prs),
                 IF pr.ok THEN acc
                 ELSE <<"Page ", ToString(pr.page_id), ": ">> \o pr.err_msg \o sep \o acc)

\* the error text collected from the failed pages, in page order
RECURSIVE ErrorMessages(_, _)
ErrorMessages(prs, acc) ==
    IF prs = <<>> THEN acc
    ELSE LET pr == Head(prs)
             sep == IF acc = <<>> THEN <<>> ELSE <<"; ">>
         IN  ErrorMessages(Tail(prs),
                           IF pr.ok THEN acc
                           ELSE acc \o sep \o <<"Page ", ToString(pr.page_id), ": ">> \o pr.err_msg)

\* Aggregate that sets file_path only after the load check
Aggregate_PathAfterLoadCheck(file_path, loaded, prs) ==
    IF ~loaded
    THEN [file_path |-> 0, ok |-> FALSE,
          err_msg |-> <<"Failed to load file content">>, n_rep |-> 0]
    ELSE [file_path |-> file_path,
          ok |-> \A j \in 1..Len(prs) : prs[j].ok,
          err_msg |-> ErrorMessages(prs, <<>>),
          n_rep |-> SumSeq([j \in 1..Len(prs) |-> IF prs[j].ok THEN prs[j].n_rep ELSE 0])]

\* Aggregate that adds the count of every page, failed or not
Aggregate_CountsFailedPages(file_path, loaded, prs) ==
    IF ~loaded
    THEN [file_path |-> file_path, ok |-> FALSE,
          err_msg |-> <<"Failed to load file content">>, n_rep |-> 0]
    ELSE [file_path |-> file_path,
          ok |-> \A j \in 1..Len(prs) : prs[j].ok,
          err_msg |-> ErrorMessages(prs, <<>>),
          n_rep |-> SumSeq([j \in 1..Len(prs) |-> prs[j].n_rep])]

\* Aggregate that leaves ok at its default for a file that was not loaded
Aggregate_LoadFailureOk(file_path, loaded, prs) ==
    IF ~loaded
    THEN [file_path |-> file_path, ok |-> TRUE, err_msg |-> <<>>, n_rep |-> 0]
    ELSE [file_path |-> file_path,
          ok |-> \A j \in 1..Len(prs) : prs[j].ok,
          err_msg |-> ErrorMessages(prs, <<>>),
          n_rep |-> SumSeq([j \in 1..Len(prs) |-> IF prs[j].ok THEN prs[j].n_rep ELSE 0])]

\* process_files, the collection loop body for one file
Aggregate(file_path, loaded, prs) ==
    IF ~loaded
    THEN [file_path |-> file_path, ok |-> FALSE,
          err_msg |-> <<"Failed to load file content">>, n_rep |-> 0]
    ELSE [file_path |-> file_path,
          ok |-> \A j \in 1..Len(prs) : prs[j].ok,
          err_msg |-> ErrorMessages(prs, <<>>),
          n_rep |-> SumSeq([j \in 1..Len(prs) |-> IF prs[j].ok THEN prs[j].n_rep ELSE 0])]

Init ==
    /\ disk \in Batches
    /\ nworkers = 1
    /\ active_threads = 0
    /\ tasks = <<>>
    /\ wk = <<IdleWorker>>
    /\ fcs = [i \in 1..Len(disk) |-> NoFileContent]
    /\ file_contents = [i \in 1..Len(disk) |-> FALSE]
    /\ file_pages = [i \in 1..Len(disk) |-> <<>>]
    /\ page_results = [i \in 1..Len(disk) |-> <<>>]
    /\ pending_tasks = 0
    /\ caller = [pc |-> "start", i |-> 0]
    /\ results = <<>>
    /\ wbq = <<>>
    /\ disp = [pc |-> "wait", batch |-> <<>>]
    /\ hist = [input |-> disk,
               stored |-> [i \in 1..Len(disk) |-> {}],
               wb_count |-> [i \in 1..Len(disk) |-> 0],
               wrote |-> [i \in 1..Len(disk) |-> <<>>]]
    /\ ub = "none"
    /\ MatcherIdle
    /\ PipeIdle

(***************************************************************************)
(* The calling thread                                                      *)
(***************************************************************************)
\* process_files up to the submit loop: empty batch, thread sizing, scaling
CallerStart(max_threads, hw) ==
    /\ caller.pc = "start"
    /\ IF disk = <<>>
       THEN /\ caller' = [pc |-> "returned", i |-> 0]
            /\ UNCHANGED <<nworkers, wk, pending_tasks>>
       ELSE /\ nworkers' = scaling(nworkers, NumThreads(max_threads, Len(disk), hw))
            /\ wk' = [w \in 1..nworkers' |-> IF w <= nworkers THEN wk[w] ELSE IdleWorker]
            /\ pending_tasks' = Len(disk)
            /\ caller' = [pc |-> "submit", i |-> 0]
    /\ UNCHANGED <<disk, active_threads, tasks, fcs, file_contents, file_pages, page_results,
                   results, wbq, disp, hist, ub, matcherVars, pipeVars>>

\* one submit_with_callback of the submit loop
CallerSubmit ==
    /\ caller.pc = "submit"
    /\ tasks' = submit(tasks, [type |-> "pre", i |-> caller.i + 1])
    /\ caller' = IF caller.i + 1 = Len(disk) THEN [pc |-> "wait_check", i |-> 0]
                 ELSE [caller EXCEPT !.i = @ + 1]
    /\ UNCHANGED <<disk, nworkers, active_threads, wk, fcs, file_contents, file_pages,
                   page_results, pending_tasks, results, wbq, disp, hist, ub,
                   matcherVars, pipeVars>>

\* completion_cv.wait(lock, pred): the predicate is evaluated
CallerCheck ==
    /\ caller.pc = "wait_check"
    /\ caller' = [caller EXCEPT !.pc = IF pending_tasks = 0 THEN "aggregate" ELSE "wait_enter"]
    /\ UNCHANGED <<disk, nworkers, active_threads, tasks, wk, fcs, file_contents, file_pages,
                   page_results, pending_tasks, results, wbq, disp, hist, ub,
                   matcherVars, pipeVars>>

\* the predicate was false: the thread releases task_mutex and blocks
CallerBlock ==
    /\ caller.pc = "wait_enter"
    /\ caller' = [caller EXCEPT !.pc = "blocked"]
    /\ UNCHANGED <<disk, nworkers, active_threads, tasks, wk, fcs, file_contents, file_pages,
                   page_results, pending_tasks, results, wbq, disp, hist, ub,
                   matcherVars, pipeVars>>

\* a spurious wakeup, which the condition variable permits
CallerSpuriousWakeup ==
    /\ caller.pc = "blocked"
    /\ caller' = [caller EXCEPT !.pc = "wait_check"]
    /\ UNCHANGED <<disk, nworkers, active_threads, tasks, wk, fcs, file_contents, file_pages,
                   page_results, pending_tasks, results, wbq, disp, hist, ub,
                   matcherVars, pipeVars>>

\* the collection loop and the return
CallerAggregate ==
    /\ caller.pc = "aggregate"
    /\ results' = [i \in 1..Len(disk) |-> Aggregate(i, file_contents[i], page_results[i])]
    /\ caller' = [caller EXCEPT !.pc = "returned"]
    /\ UNCHANGED <<disk, nworkers, active_threads, tasks, wk, fcs, file_contents, file_pages,
                   page_results, pending_tasks, wbq, disp, hist, ub, matcherVars, pipeVars>>

(***************************************************************************)
(* The pool workers (ThreadPool::worker_thread and the tasks they run)     *)
(***************************************************************************)
\* the state of a worker that has just taken task: a preprocess task has
\* run preprocess_file and is about to call the continuation
TaskEntry(task) ==
    IF task.type = "pre"
    THEN LET pre == preprocess_file(disk[task.i], ProcRegions)
         IN  [pc |-> "callback", i |-> task.i, ok |-> pre.ok, pages |-> pre.pages]
    ELSE IF task.type = "page" THEN [pc |-> "page", i |-> task.i, j |-> task.j]
    ELSE [pc |-> "writeback", i |-> task.i, total |-> task.total]

\* WorkerTake that takes the task submitted last
WorkerTake_TakesBack(w) ==
    /\ wk[w].pc = "idle"
    /\ tasks # <<>>
    /\ LET task == tasks[Len(tasks)]
       IN  /\ wk' = [wk EXCEPT ![w] = TaskEntry(task)]
           /\ fcs' = IF task.type = "pre"
                     THEN [fcs EXCEPT ![task.i] =
                               FileContentOf(preprocess_file(disk[task.i], ProcRegions))]
                     ELSE fcs
    /\ tasks' = SubSeq(tasks, 1, Len(tasks) - 1)
    /\ active_threads' = active_threads + 1
    /\ UNCHANGED <<disk, nworkers, file_contents, file_pages, page_results,
                   pending_tasks, caller, results, wbq, disp, hist, ub, matcherVars, pipeVars>>

\* the worker takes the front task and counts itself active; preprocess_file
\* touches nothing shared but the FileContent it creates, so it is part of
\* this step
WorkerTake(w) ==
    /\ wk[w].pc = "idle"
    /\ tasks # <<>>
    /\ LET task == Head(tasks)
       IN  /\ wk' = [wk EXCEPT ![w] = TaskEntry(task)]
           /\ fcs' = IF task.type = "pre"
                     THEN [fcs EXCEPT ![task.i] =
                               FileContentOf(preprocess_file(disk[task.i], ProcRegions))]
                     ELSE fcs
    /\ tasks' = Tail(tasks)
    /\ active_threads' = active_threads + 1
    /\ UNCHANGED <<disk, nworkers, file_contents, file_pages, page_results,
                   pending_tasks, caller, results, wbq, disp, hist, ub, matcherVars, pipeVars>>

\* WorkerCallback that raises the counter by the number of pages
WorkerCallback_RaisesByPages(w) ==
    /\ wk[w].pc = "callback"
    /\ LET i == wk[w].i
           pages == wk[w].pages
       IN  IF ~wk[w].ok \/ pages = <<>>
           THEN /\ pending_tasks' = pending_tasks - 1
                /\ IF pending_tasks = 1
                   THEN /\ wk' = [wk EXCEPT ![w] = [pc |-> "signal"]]
                        /\ UNCHANGED active_threads
                   ELSE /\ wk' = [wk EXCEPT ![w] = IdleWorker]
                        /\ active_threads' = active_threads - 1
                /\ UNCHANGED <<file_contents, file_pages, page_results>>
           ELSE /\ file_contents' = [file_contents EXCEPT ![i] = TRUE]
                /\ file_pages' = [file_pages EXCEPT ![i] = pages]
                /\ page_results' = [page_results EXCEPT
                                        ![i] = [j \in 1..Len(pages) |-> DefaultPageResult]]
                /\ pending_tasks' = pending_tasks + Len(pages)
                /\ wk' = [wk EXCEPT ![w] = [pc |-> "submit_pages", i |-> i, j |-> 1]]
                /\ UNCHANGED active_threads
    /\ UNCHANGED <<disk, nworkers, tasks, fcs, caller, results, wbq, disp, hist, ub,
                   matcherVars, pipeVars>>

\* the continuation up to the page submit loop
WorkerCallback(w) ==
    /\ wk[w].pc = "callback"
    /\ LET i == wk[w].i
           pages == wk[w].pages
       IN  IF ~wk[w].ok \/ pages = <<>>
           THEN /\ pending_tasks' = pending_tasks - 1
                /\ IF pending_tasks = 1
                   THEN /\ wk' = [wk EXCEPT ![w] = [pc |-> "signal"]]
                        /\ UNCHANGED active_threads
                   ELSE /\ wk' = [wk EXCEPT ![w] = IdleWorker]
                        /\ active_threads' = active_threads - 1
                /\ UNCHANGED <<file_contents, file_pages, page_results>>
           ELSE /\ file_contents' = [file_contents EXCEPT ![i] = TRUE]
                /\ file_pages' = [file_pages EXCEPT ![i] = pages]
                /\ page_results' = [page_results EXCEPT
                                        ![i] = [j \in 1..Len(pages) |-> DefaultPageResult]]
                /\ pending_tasks' = pending_tasks + (Len(pages) - 1)
                /\ wk' = [wk EXCEPT ![w] = [pc |-> "submit_pages", i |-> i, j |-> 1]]
                /\ UNCHANGED active_threads
    /\ UNCHANGED <<disk, nworkers, tasks, fcs, caller, results, wbq, disp, hist, ub,
                   matcherVars, pipeVars>>

\* WorkerSubmitPage that submits every page task twice
WorkerSubmitPage_SubmitsTwice(w) ==
    /\ wk[w].pc = "submit_pages"
    /\ LET i == wk[w].i
           j == wk[w].j
       IN  /\ tasks' = submit(submit(tasks, [type |-> "page", i |-> i, j |-> j]),
                           [type |-> "page", i |-> i, j |-> j])
           /\ IF j = Len(file_pages[i])
              THEN /\ wk' = [wk EXCEPT ![w] = IdleWorker]
                   /\ active_threads' = active_threads - 1
              ELSE /\ wk' = [wk EXCEPT ![w].j = j + 1]
                   /\ UNCHANGED active_threads
    /\ UNCHANGED <<disk, nworkers, fcs, file_contents, file_pages, page_results,
                   pending_tasks, caller, results, wbq, disp, hist, ub, matcherVars, pipeVars>>

\* one _thread_pool.submit of the page submit loop
WorkerSubmitPage(w) ==
    /\ wk[w].pc = "submit_pages"
    /\ LET i == wk[w].i
           j == wk[w].j
       IN  /\ tasks' = submit(tasks, [type |-> "page", i |-> i, j |-> j])
           /\ IF j = Len(file_pages[i])
              THEN /\ wk' = [wk EXCEPT ![w] = IdleWorker]
                   /\ active_threads' = active_threads - 1
              ELSE /\ wk' = [wk EXCEPT ![w].j = j + 1]
                   /\ UNCHANGED active_threads
    /\ UNCHANGED <<disk, nworkers, fcs, file_contents, file_pages, page_results,
                   pending_tasks, caller, results, wbq, disp, hist, ub, matcherVars, pipeVars>>

\* WorkerPageWork whose protected branch forgets to store the slice
WorkerPageWork_ProtectedSkipsStore(w) ==
    /\ wk[w].pc = "page"
    /\ LET i == wk[w].i
           page == file_pages[i][wk[w].j]
           r == PageText(ProcRules, fcs[i].content, page)
           added == [fcs[i] EXCEPT !.total_replacements = @ + r.n_rep]
       IN  /\ fcs' = [fcs EXCEPT ![i] = IF page.is_protected THEN added
                                        ELSE StoreSlot(added, page.pid, r.text)]
           /\ hist' = [hist EXCEPT !.stored[i] = IF page.is_protected THEN @
                                                 ELSE @ \cup {page.pid}]
           /\ wk' = [wk EXCEPT ![w] =
                         [pc |-> "page_dec", i |-> i, j |-> wk[w].j,
                          result |-> [file_path |-> i, page_id |-> page.pid,
                                      processed_content |-> r.text, n_rep |-> r.n_rep,
                                      ok |-> TRUE, err_msg |-> <<>>]]]
    /\ UNCHANGED <<disk, nworkers, active_threads, tasks, file_contents, file_pages,
                   page_results, pending_tasks, caller, results, wbq, disp, ub,
                   matcherVars, pipeVars>>

\* process_page: extract, replace, add the count, store the slice
WorkerPageWork(w) ==
    /\ wk[w].pc = "page"
    /\ LET i == wk[w].i
           page == file_pages[i][wk[w].j]
           r == PageText(ProcRules, fcs[i].content, page)
           added == [fcs[i] EXCEPT !.total_replacements = @ + r.n_rep]
       IN  /\ fcs' = [fcs EXCEPT ![i] = StoreSlot(added, page.pid, r.text)]
           /\ hist' = [hist EXCEPT !.stored[i] = @ \cup {page.pid}]
           /\ wk' = [wk EXCEPT ![w] =
                         [pc |-> "page_dec", i |-> i, j |-> wk[w].j,
                          result |-> [file_path |-> i, page_id |-> page.pid,
                                      processed_content |-> r.text, n_rep |-> r.n_rep,
                                      ok |-> TRUE, err_msg |-> <<>>]]]
    /\ UNCHANGED <<disk, nworkers, active_threads, tasks, file_contents, file_pages,
                   page_results, pending_tasks, caller, results, wbq, disp, ub,
                   matcherVars, pipeVars>>

\* the page tasks that have thrown so far
FaultCount ==
    Cardinality({ij \in UNION {{<<i, j>> : j \in 1..Len(page_results[i])} :
                                   i \in 1..Len(page_results)} :
                     ~page_results[ij[1]][ij[2]].ok})
    + Cardinality({w \in 1..nworkers : wk[w].pc = "page_done" /\ ~wk[w].result.ok})

\* WorkerPageThrow whose catch block goes on to the decrement of ref_cnt
WorkerPageThrow_Decrements(w) ==
    /\ wk[w].pc = "page"
    /\ FaultCount < MaxFaults
    /\ LET i == wk[w].i
           page == file_pages[i][wk[w].j]
       IN  wk' = [wk EXCEPT ![w] =
                      [pc |-> "page_dec", i |-> i, j |-> wk[w].j,
                       result |-> [file_path |-> i, page_id |-> page.pid,
                                   processed_content |-> <<>>, n_rep |-> 0,
                                   ok |-> FALSE,
                                   err_msg |-> <<"Page processing exception: ",
                                                 "std::bad_alloc">>]]]
    /\ UNCHANGED <<disk, nworkers, active_threads, tasks, fcs, file_contents, file_pages,
                   page_results, pending_tasks, caller, results, wbq, disp, hist, ub,
                   matcherVars, pipeVars>>

\* process_page when an allocation fails inside the try block: in substr
\* (point "extract") or in the assignment to the slot (point "store", after
\* the count was added for a page that is not protected).  The catch turns
\* the exception into a failed PageResult; ref_cnt is not decremented.
WorkerPageThrow(w) ==
    /\ wk[w].pc = "page"
    /\ FaultCount < MaxFaults
    /\ \E point \in {"extract", "store"} :
           LET i == wk[w].i
               page == file_pages[i][wk[w].j]
               r == PageText(ProcRules, fcs[i].content, page)
           IN  /\ fcs' = IF point = "store"
                         THEN [fcs EXCEPT ![i].total_replacements = @ + r.n_rep]
                         ELSE fcs
               /\ wk' = [wk EXCEPT ![w] =
                             [pc |-> "page_done", i |-> i, j |-> wk[w].j,
                              result |-> [file_path |-> i, page_id |-> page.pid,
                                          processed_content |->
                                              IF point = "store" THEN r.text ELSE <<>>,
                                          n_rep |-> IF point = "store" THEN r.n_rep ELSE 0,
                                          ok |-> FALSE,
                                          err_msg |-> <<"Page processing exception: ",
                                                        "std::bad_alloc">>],
                              remaining |-> -1, total |-> 0]]
    /\ UNCHANGED <<disk, nworkers, active_threads, tasks, file_contents, file_pages,
                   page_results, pending_tasks, caller, results, wbq, disp, hist, ub,
                   matcherVars, pipeVars>>

\* process_page when notify_writeback throws (the lock or the allocation of
\* the queue node fails): the slot is filled, the count added and ref_cnt
\* at zero, but no notification is queued and the catch turns the page into
\* a failed PageResult
WorkerNotifyThrow(w) ==
    /\ wk[w].pc = "page_notify"
    /\ FaultCount < MaxFaults
    /\ wk' = [wk EXCEPT ![w].pc = "page_done",
                        ![w].result.ok = FALSE,
                        ![w].result.err_msg = <<"Page processing exception: ",
                                                "std::bad_alloc">>]
    /\ UNCHANGED <<disk, nworkers, active_threads, tasks, fcs, file_contents, file_pages,
                   page_results, pending_tasks, caller, results, wbq, disp, hist, ub,
                   matcherVars, pipeVars>>

\* WorkerPageDec that notifies when the value before the decrement is zero
\* or one (fetch_sub's return value compared off by one)
WorkerPageDec_NotifyOffByOne(w) ==
    /\ wk[w].pc = "page_dec"
    /\ LET i == wk[w].i
           remaining == fcs[i].ref_cnt - 1
       IN  /\ fcs' = [fcs EXCEPT ![i].ref_cnt = remaining]
           /\ wk' = [wk EXCEPT ![w] =
                         [pc |-> IF remaining <= 1 THEN "page_notify" ELSE "page_done",
                          i |-> i, j |-> wk[w].j, result |-> wk[w].result,
                          remaining |-> remaining,
                          total |-> 0]]
    /\ UNCHANGED <<disk, nworkers, active_threads, tasks, file_contents, file_pages,
                   page_results, pending_tasks, caller, results, wbq, disp, hist, ub,
                   matcherVars, pipeVars>>

\* process_page: remaining = ref_cnt.fetch_sub(1) - 1; the task that sees
\* zero goes on to load total_replacements and notify the writeback
WorkerPageDec(w) ==
    /\ wk[w].pc = "page_dec"
    /\ LET i == wk[w].i
           remaining == fcs[i].ref_cnt - 1
       IN  /\ fcs' = [fcs EXCEPT ![i].ref_cnt = remaining]
           /\ wk' = [wk EXCEPT ![w] =
                         [pc |-> IF remaining = 0 THEN "page_notify" ELSE "page_done",
                          i |-> i, j |-> wk[w].j, result |-> wk[w].result,
                          remaining |-> remaining,
                          total |-> 0]]
    /\ UNCHANGED <<disk, nworkers, active_threads, tasks, file_contents, file_pages,
                   page_results, pending_tasks, caller, results, wbq, disp, hist, ub,
                   matcherVars, pipeVars>>

\* WorkerPageNotify that passes the count of its own page as the total
WorkerPageNotify_OwnCount(w) ==
    /\ wk[w].pc = "page_notify"
    /\ LET i == wk[w].i
       IN  /\ wbq' = Append(wbq, [i |-> i, total |-> wk[w].result.n_rep])
           /\ hist' = [hist EXCEPT !.wb_count[i] = @ + 1]
           /\ wk' = [wk EXCEPT ![w].pc = "page_done"]
    /\ UNCHANGED <<disk, nworkers, active_threads, tasks, fcs, file_contents, file_pages,
                   page_results, pending_tasks, caller, results, disp, ub,
                   matcherVars, pipeVars>>

\* total_replacements.load() and notify_writeback: the notification is
\* queued for the dispatcher
WorkerPageNotify(w) ==
    /\ wk[w].pc = "page_notify"
    /\ LET i == wk[w].i
       IN  /\ wbq' = Append(wbq, [i |-> i, total |-> fcs[i].total_replacements])
           /\ hist' = [hist EXCEPT !.wb_count[i] = @ + 1]
           /\ wk' = [wk EXCEPT ![w].pc = "page_done"]
    /\ UNCHANGED <<disk, nworkers, active_threads, tasks, fcs, file_contents, file_pages,
                   page_results, pending_tasks, caller, results, disp, ub,
                   matcherVars, pipeVars>>

\* the page task stores its PageResult and decrements the pending counter
WorkerPageDone(w) ==
    /\ wk[w].pc = "page_done"
    /\ page_results' = [page_results EXCEPT ![wk[w].i][wk[w].j] = wk[w].result]
    /\ pending_tasks' = pending_tasks - 1
    /\ IF pending_tasks = 1
       THEN /\ wk' = [wk EXCEPT ![w] = [pc |-> "signal"]]
            /\ UNCHANGED active_threads
       ELSE /\ wk' = [wk EXCEPT ![w] = IdleWorker]
            /\ active_threads' = active_threads - 1
    /\ UNCHANGED <<disk, nworkers, tasks, fcs, file_contents, file_pages, caller, results,
                   wbq, disp, hist, ub, matcherVars, pipeVars>>

\* process_files has returned: its locals (the pending counter, the
\* condition variable, the result vectors) are gone; the caller may be in
\* ~FileProcessor by now
ProcessFilesReturned ==
    caller.pc \in {"returned", "dtor_join", "dtor_shutdown", "pool_join", "destroyed"}

\* completion_cv.notify_one() by the task that saw the counter reach zero.
\* It wakes the caller only if the caller is blocked in wait.  Once
\* process_files has returned the condition variable no longer exists and
\* the call is undefined: either the worker survives it or the process
\* dies with all its threads.
WorkerSignal(w) ==
    /\ wk[w].pc = "signal"
    /\ \/ /\ wk' = [wk EXCEPT ![w] = IdleWorker]
          /\ active_threads' = active_threads - 1
          /\ caller' = IF caller.pc = "blocked" THEN [caller EXCEPT !.pc = "wait_check"]
                       ELSE caller
          /\ ub' = IF ProcessFilesReturned THEN "survived" ELSE ub
          /\ UNCHANGED disp
       \/ /\ ProcessFilesReturned
          /\ ub' = "crashed"
          /\ wk' = [v \in 1..nworkers |-> [pc |-> "dead"]]
          /\ caller' = [caller EXCEPT !.pc = "dead"]
          /\ disp' = [disp EXCEPT !.pc = "dead"]
          /\ UNCHANGED active_threads
    /\ UNCHANGED <<disk, nworkers, tasks, fcs, file_contents, file_pages, page_results,
                   pending_tasks, results, wbq, hist, matcherVars, pipeVars>>

\* a writeback task submitted by the dispatcher
WorkerWriteback(w) ==
    /\ wk[w].pc = "writeback"
    /\ LET i == wk[w].i
           after == writeback(disk[i], fcs[i].processed_pages, wk[w].total)
       IN  /\ disk' = [disk EXCEPT ![i] = after]
           /\ hist' = [hist EXCEPT !.wrote[i] =
                           IF wk[w].total = 0 THEN @ ELSE Append(@, after.bytes)]
    /\ wk' = [wk EXCEPT ![w] = IdleWorker]
    /\ active_threads' = active_threads - 1
    /\ UNCHANGED <<nworkers, tasks, fcs, file_contents, file_pages, page_results,
                   pending_tasks, caller, results, wbq, disp, ub, matcherVars, pipeVars>>

(***************************************************************************)
(* The writeback dispatcher (FileProcessor::writeback_worker)              *)
(***************************************************************************)
\* ThreadPool::idle_threads
idle_threads == nworkers - active_threads

\* one round: woken with a non-empty queue, it takes a batch for the pool
\* when the pool reports idle workers and one notification otherwise
DispatchRound ==
    /\ disp.pc = "wait"
    /\ wbq # <<>>
    /\ IF idle_threads > 0
       THEN LET k == Min(Len(wbq), idle_threads)
            IN  /\ disp' = [pc |-> "submit", batch |-> SubSeq(wbq, 1, k)]
                /\ wbq' = SubSeq(wbq, k + 1, Len(wbq))
       ELSE /\ disp' = [pc |-> "inline", batch |-> <<Head(wbq)>>]
            /\ wbq' = Tail(wbq)
    /\ UNCHANGED <<disk, nworkers, active_threads, tasks, wk, fcs, file_contents, file_pages,
                   page_results, pending_tasks, caller, results, hist, ub,
                   matcherVars, pipeVars>>

\* the batch is handed to the pool, one submit per notification
DispatchSubmit ==
    /\ disp.pc = "submit"
    /\ tasks' = submit(tasks, [type |-> "writeback", i |-> Head(disp.batch).i,
                               total |-> Head(disp.batch).total])
    /\ disp' = IF Len(disp.batch) = 1 THEN [pc |-> "wait", batch |-> <<>>]
               ELSE [disp EXCEPT !.batch = Tail(@)]
    /\ UNCHANGED <<disk, nworkers, active_threads, wk, fcs, file_contents, file_pages,
                   page_results, pending_tasks, caller, results, wbq, hist, ub,
                   matcherVars, pipeVars>>

\* the single notification is written on the dispatcher thread
DispatchInline ==
    /\ disp.pc = "inline"
    /\ LET n == Head(disp.batch)
           after == writeback(disk[n.i], fcs[n.i].processed_pages, n.total)
       IN  /\ disk' = [disk EXCEPT ![n.i] = after]
           /\ hist' = [hist EXCEPT !.wrote[n.i] =
                           IF n.total = 0 THEN @ ELSE Append(@, after.bytes)]
    /\ disp' = [pc |-> "wait", batch |-> <<>>]
    /\ UNCHANGED <<nworkers, active_threads, tasks, wk, fcs, file_contents, file_pages,
                   page_results, pending_tasks, caller, results, wbq, ub,
                   matcherVars, pipeVars>>

Next ==
    \/ \E max_threads \in 0..MaxThreadsArg, hw \in 0..MaxHardware :
           CallerStart(max_threads, hw)
    \/ CallerSubmit
    \/ CallerCheck
    \/ CallerBlock
    \/ CallerSpuriousWakeup
    \/ CallerAggregate
    \/ \E w \in 1..nworkers : WorkerTake(w)
    \/ \E w \in 1..nworkers : WorkerCallback(w)
    \/ \E w \in 1..nworkers : WorkerSubmitPage(w)
    \/ \E w \in 1..nworkers : WorkerPageWork(w)
    \/ \E w \in 1..nworkers : WorkerPageDec(w)
    \/ \E w \in 1..nworkers : WorkerPageNotify(w)
    \/ \E w \in 1..nworkers : WorkerPageDone(w)
    \/ \E w \in 1..nworkers : WorkerSignal(w)
    \/ \E w \in 1..nworkers : WorkerWriteback(w)
    \/ DispatchRound
    \/ DispatchSubmit
    \/ DispatchInline

Spec == Init /\ [][Next]_vars

(***************************************************************************)
(* SpecLife: the Processor is destroyed after process_files has returned   *)
(* (or without any call).  ~FileProcessor runs on the calling thread.      *)
(***************************************************************************)
\* _writeback_stop: set by the destructor's first step
writeback_stop == caller.pc \in {"dtor_join", "dtor_shutdown", "pool_join", "destroyed"}

\* ThreadPool::_stop: set by ThreadPool::shutdown
pool_stop == caller.pc \in {"pool_join", "destroyed"}

\* ~FileProcessor: _writeback_stop = true under the mutex, notify_all
DtorStop ==
    /\ caller.pc \in {"start", "returned"}
    /\ caller' = [caller EXCEPT !.pc = "dtor_join"]
    /\ UNCHANGED <<disk, nworkers, active_threads, tasks, wk, fcs, file_contents, file_pages,
                   page_results, pending_tasks, results, wbq, disp, hist, ub,
                   matcherVars, pipeVars>>

\* ~FileProcessor: _writeback_thread.join() returns once the dispatcher ended
DtorJoin ==
    /\ caller.pc = "dtor_join"
    /\ disp.pc = "exited"
    /\ caller' = [caller EXCEPT !.pc = "dtor_shutdown"]
    /\ UNCHANGED <<disk, nworkers, active_threads, tasks, wk, fcs, file_contents, file_pages,
                   page_results, pending_tasks, results, wbq, disp, hist, ub,
                   matcherVars, pipeVars>>

\* ThreadPool::shutdown: _stop = true under the queue mutex, notify_all
DtorShutdown ==
    /\ caller.pc = "dtor_shutdown"
    /\ caller' = [caller EXCEPT !.pc = "pool_join"]
    /\ UNCHANGED <<disk, nworkers, active_threads, tasks, wk, fcs, file_contents, file_pages,
                   page_results, pending_tasks, results, wbq, disp, hist, ub,
                   matcherVars, pipeVars>>

\* ThreadPool::shutdown: every worker joined, _workers.clear()
DtorPoolJoin ==
    /\ caller.pc = "pool_join"
    /\ \A w \in 1..nworkers : wk[w].pc = "exited"
    /\ caller' = [caller EXCEPT !.pc = "destroyed"]
    /\ UNCHANGED <<disk, nworkers, active_threads, tasks, wk, fcs, file_contents, file_pages,
                   page_results, pending_tasks, results, wbq, disp, hist, ub,
                   matcherVars, pipeVars>>

\* DispatchExit that leaves as soon as the stop flag is set
DispatchExit_IgnoresQueue ==
    /\ disp.pc = "wait"
    /\ writeback_stop
    /\ disp' = [disp EXCEPT !.pc = "exited"]
    /\ UNCHANGED <<disk, nworkers, active_threads, tasks, wk, fcs, file_contents, file_pages,
                   page_results, pending_tasks, caller, results, wbq, hist, ub,
                   matcherVars, pipeVars>>

\* writeback_worker: woken with the stop flag set and an empty queue, it
\* leaves its loop
DispatchExit ==
    /\ disp.pc = "wait"
    /\ writeback_stop
    /\ wbq = <<>>
    /\ disp' = [disp EXCEPT !.pc = "exited"]
    /\ UNCHANGED <<disk, nworkers, active_threads, tasks, wk, fcs, file_contents, file_pages,
                   page_results, pending_tasks, caller, results, wbq, hist, ub,
                   matcherVars, pipeVars>>

\* WorkerExit that leaves as soon as the stop flag is set
WorkerExit_IgnoresQueue(w) ==
    /\ wk[w].pc = "idle"
    /\ pool_stop
    /\ wk' = [wk EXCEPT ![w] = [pc |-> "exited"]]
    /\ UNCHANGED <<disk, nworkers, active_threads, tasks, fcs, file_contents, file_pages,
                   page_results, pending_tasks, caller, results, wbq, disp, hist, ub,
                   matcherVars, pipeVars>>

\* worker_thread: woken with _stop set and an empty task queue, it leaves
\* its loop
WorkerExit(w) ==
    /\ wk[w].pc = "idle"
    /\ pool_stop
    /\ tasks = <<>>
    /\ wk' = [wk EXCEPT ![w] = [pc |-> "exited"]]
    /\ UNCHANGED <<disk, nworkers, active_threads, tasks, fcs, file_contents, file_pages,
                   page_results, pending_tasks, caller, results, wbq, disp, hist, ub,
                   matcherVars, pipeVars>>

NextLife ==
    \/ Next
    \/ DtorStop
    \/ DtorJoin
    \/ DtorShutdown
    \/ DtorPoolJoin
    \/ DispatchExit
    \/ \E w \in 1..nworkers : WorkerExit(w)

SpecLife == Init /\ [][NextLife]_vars

\* process_files when allocations inside process_page may fail
NextFault ==
    \/ Next
    \/ \E w \in 1..nworkers : WorkerPageThrow(w)
    \/ \E w \in 1..nworkers : WorkerNotifyThrow(w)

\* the batches tried with failing allocations: files of two pages with a
\* pattern, and files that do not load
FaultBatches == UNION {[1..n -> {RuleFile, BinaryFile}] : n \in 1..MaxFiles}

InitFault == Init /\ disk \in FaultBatches

SpecFault == InitFault /\ [][NextFault]_vars

(***************************************************************************)
(* Properties of process_files (Spec)                                      *)
(***************************************************************************)
Files == 1..Len(disk)

\* every task has run to its end and the dispatcher has nothing to do
PoolDrained ==
    /\ caller.pc \notin {"start", "submit"}
    /\ tasks = <<>>
    /\ \A w \in 1..nworkers : wk[w].pc = "idle"

Quiescent ==
    /\ caller.pc = "returned"
    /\ PoolDrained
    /\ wbq = <<>>
    /\ disp.pc = "wait"

\* the continuation's test on the input file i: content loaded and paged
PreprocessSucceeded(i) ==
    LET pre == preprocess_file(hist.input[i], ProcRegions)
    IN  pre.ok /\ pre.pages # <<>>

\* C1 (as claimed): once the pending counter is zero the caller is not left
\* blocked on the completion signal: whenever it is blocked with the counter
\* at zero, a worker is still about to signal.
C1_CallerNeverLeftBlocked ==
    (caller.pc = "blocked" /\ pending_tasks = 0)
        => \E w \in 1..nworkers : wk[w].pc = "signal"

ExpectedPage(i, j) == PageText(ProcRules, fcs[i].content, file_pages[i][j])

\* C3: when a file's notification has been enqueued (hence whenever its
\* writeback runs), every page task of the file has stored its slice and
\* added its count.
C3_WritebackAfterAllPages ==
    \A i \in Files :
        (hist.wb_count[i] > 0 \/ hist.wrote[i] # <<>>) =>
            /\ hist.stored[i] = {file_pages[i][j].pid : j \in 1..Len(file_pages[i])}
            /\ \A j \in 1..Len(file_pages[i]) :
                   fcs[i].processed_pages[j] = ExpectedPage(i, j).text
            /\ fcs[i].total_replacements =
                   SumSeq([j \in 1..Len(file_pages[i]) |-> ExpectedPage(i, j).n_rep])

\* the notification of a two-page file is queued while the task that
\* enqueued it has not returned yet
C3_Witness ==
    \E w \in 1..nworkers :
        /\ wk[w].pc = "page_done"
        /\ wk[w].remaining = 0
        /\ hist.wb_count[wk[w].i] = 1
        /\ Len(file_pages[wk[w].i]) = 2
        /\ fcs[wk[w].i].total_replacements > 0

\* the file and the result of a run that takes the pages of a file one
\* after the other in page order
SequentialRun(file_path, file) ==
    LET pre == preprocess_file(file, ProcRegions)
        out == [j \in 1..Len(pre.pages) |-> PageText(ProcRules, pre.content, pre.pages[j])]
        total == SumSeq([j \in 1..Len(out) |-> out[j].n_rep])
    IN  IF pre.ok /\ pre.pages # <<>>
        THEN [file |-> writeback(file, [j \in 1..Len(out) |-> out[j].text], total),
              result |-> [file_path |-> file_path, ok |-> TRUE, err_msg |-> <<>>,
                          n_rep |-> total]]
        ELSE [file |-> file,
              result |-> [file_path |-> file_path, ok |-> FALSE,
                          err_msg |-> <<"Failed to load file content">>, n_rep |-> 0]]

\* C4: whatever the pool size and the order in which the page tasks ran,
\* the results returned and, once the writebacks are done, the files on
\* disk are those of the sequential run on the same input.
C4_Deterministic ==
    /\ caller.pc = "returned" =>
           results = [i \in Files |-> SequentialRun(i, hist.input[i]).result]
    /\ Quiescent =>
           disk = [i \in Files |-> SequentialRun(i, hist.input[i]).file]

\* with two workers, page 0 of a two-page file finished last (after page
\* 1), and the file has already been rewritten
C4_Witness ==
    /\ nworkers >= 2
    /\ \E w \in 1..nworkers :
           /\ wk[w].pc = "page_done"
           /\ wk[w].remaining = 0
           /\ wk[w].result.page_id = 0
           /\ Len(file_pages[wk[w].i]) = 2
           /\ hist.wrote[wk[w].i] # <<>>
           /\ disk[wk[w].i] # hist.input[wk[w].i]

\* no configured pattern occurs in text
NoPatternOccurs(rep_map, text) ==
    \A q \in 0..Len(text) : PrefixesAt(rep_map, text, q) = {}

\* C9 (as claimed): a loadable text file of any length in which no pattern
\* occurs is returned with ok and count 0, and is never opened for writing.
C9_NoOpFile ==
    \A i \in Files :
        LET loaded == load_file_content(hist.input[i])
        IN  (loaded.ok /\ NoPatternOccurs(ProcRules, loaded.content)) =>
                /\ hist.wrote[i] = <<>>
                /\ disk[i] = hist.input[i]
                /\ caller.pc = "returned" => (results[i].ok /\ results[i].n_rep = 0)

\* C10 (as claimed): what writeback writes is the concatenation of the
\* processed pages in page-id order, nothing added.
C10_WrittenIsConcat ==
    \A i \in Files :
        \A k \in 1..Len(hist.wrote[i]) :
            hist.wrote[i][k] = Concat(fcs[i].processed_pages)

\* C10 (amended): for a file whose total replacement count is nonzero, what
\* writeback writes is the concatenation of the processed pages in page-id
\* order followed by one '\n', nothing else added and nothing omitted; a
\* file whose count is zero is not written.
C10_WrittenIsConcatNewline ==
    \A i \in Files :
        \A k \in 1..Len(hist.wrote[i]) :
            /\ hist.wrote[i][k] = Append(Concat(fcs[i].processed_pages), NL)
            /\ disk[i].bytes = hist.wrote[i][k]
            /\ fcs[i].total_replacements # 0

\* a two-page file has been rewritten
C10_Witness ==
    \E i \in Files :
        /\ hist.wrote[i] # <<>>
        /\ Len(fcs[i].processed_pages) = 2
        /\ Quiescent

\* C11: process_files returns one ProcessingResult per input path, and the
\* result in slot k carries the path of input k, whatever order the tasks
\* of the files completed in.
C11_OneResultPerPathInOrder ==
    caller.pc = "returned" =>
        /\ Len(results) = Len(hist.input)
        /\ \A k \in 1..Len(results) : results[k].file_path = k

\* returned with two results of different outcome, the pool having had two
\* workers to run the files' tasks in either order
C11_Witness ==
    /\ caller.pc = "returned"
    /\ nworkers >= 2
    /\ Len(results) = 2
    /\ ~results[1].ok
    /\ results[2].ok /\ results[2].n_rep > 0

\* no page task, notification or writeback of file i exists anywhere
NoWorkFor(i) ==
    /\ \A k \in 1..Len(tasks) : tasks[k].type = "pre" \/ tasks[k].i # i
    /\ \A w \in 1..nworkers :
           \/ wk[w].pc \in {"idle", "signal", "dead", "callback"}
           \/ wk[w].i # i
    /\ \A k \in 1..Len(wbq) : wbq[k].i # i
    /\ \A k \in 1..Len(disp.batch) : disp.batch[k].i # i

LoadFailure(i) ==
    [file_path |-> i, ok |-> FALSE, err_msg |-> <<"Failed to load file content">>, n_rep |-> 0]

\* C13: a file that is binary or cannot be opened gets ok = false with
\* "Failed to load file content", never a page task, a notification or a
\* writeback, and stays unchanged; the other files of the batch get the
\* results and the bytes of their own sequential run.
C13_LoadFailureIsLocal ==
    \A i \in Files :
        ~load_file_content(hist.input[i]).ok =>
            /\ NoWorkFor(i)
            /\ file_pages[i] = <<>>
            /\ hist.wb_count[i] = 0
            /\ hist.wrote[i] = <<>>
            /\ disk[i] = hist.input[i]
            /\ caller.pc = "returned" =>
                   /\ results[i] = LoadFailure(i)
                   /\ \A k \in Files \ {i} :
                          results[k] = SequentialRun(k, hist.input[k]).result
            /\ Quiescent =>
                   \A k \in Files \ {i} : disk[k] = SequentialRun(k, hist.input[k]).file

\* the run is over for a batch of a binary or missing file and a file that
\* was rewritten
C13_Witness ==
    /\ Quiescent
    /\ \E i \in Files : hist.input[i] \in {BinaryFile, MissingFile}
    /\ \E k \in Files : hist.wrote[k] # <<>> /\ results[k].ok

\* the pages of file i whose task ended in the catch block
FailedPages(i) == {j \in 1..Len(page_results[i]) : ~page_results[i][j].ok}

\* C12: the replacement count returned for a file is the sum, over its pages
\* that succeeded, of the number of replacements the matcher makes in that
\* page; a failed page adds nothing, whatever count it had reached.
C12_CountIsSumOfSuccessfulPages ==
    caller.pc = "returned" =>
        \A i \in Files :
            results[i].n_rep =
                SumSeq([j \in 1..Len(file_pages[i]) |->
                            IF j \in FailedPages(i) THEN 0 ELSE ExpectedPage(i, j).n_rep])

\* returned for a batch with a file all of whose pages succeeded and a file
\* whose page failed after its replacements had been counted
C12_Witness ==
    /\ caller.pc = "returned"
    /\ \E i \in Files : results[i].ok /\ results[i].n_rep > 0
    /\ \E i \in Files : \E j \in FailedPages(i) : page_results[i][j].n_rep > 0

\* the text ErrorMessages builds has one entry of five pieces per failed
\* page and a separator between entries: entry k starts at 6 * (k - 1) + 1
EntryAt(msg, k) == SubSeq(msg, 6 * (k - 1) + 1, 6 * (k - 1) + 5)

PagesTouching(iv) ==
    {j \in 1..Len(pipe.pages) :
         pipe.pages[j].start_pos <= iv.end_last /\ pipe.pages[j].end_pos > iv.start_first}

\* C15: the pages of a non-empty content tile it: the first starts at 0,
\* each ends where the next starts, the last ends at the content's length,
\* and the page ids are 0, 1, 2, ... in emission order.
C15_PagesTile ==
    (PipePaged /\ pipe.loaded /\ pipe.fc.content # <<>>) =>
        LET pages == pipe.pages
            n == Len(pages)
        IN  /\ n >= 1
            /\ pages[1].start_pos = 0
            /\ \A j \in 1..(n - 1) : pages[j].end_pos = pages[j + 1].start_pos
            /\ pages[n].end_pos = Len(pipe.fc.content)
            /\ \A j \in 1..n : pages[j].pid = j - 1

\* a content cut into at least three pages, one protected, one whose end was
\* moved by the boundary search
C15_Witness ==
    /\ PipePaged
    /\ Len(pipe.pages) >= 3
    /\ \E j \in 1..Len(pipe.pages) : pipe.pages[j].is_protected
    /\ \E j \in 1..Len(pipe.pages) :
           /\ ~pipe.pages[j].is_protected
           /\ pipe.pages[j].end_pos < Len(pipe.fc.content)
           /\ pipe.pages[j].end_pos # pipe.pages[j].start_pos + PAGE_SIZE
           /\ pipe.fc.content[pipe.pages[j].end_pos] \in {NL, SP}

\* C16: a page that is not protected holds no position of any protected
\* interval, also when its end was moved to a newline or a space.
C16_RegularPagesAvoidIntervals ==
    PipePaged =>
        \A k \in 1..Len(pipe.fc.protected_interval) :
            \A j \in PagesTouching(pipe.fc.protected_interval[k]) :
                pipe.pages[j].is_protected

\* a regular page that was stopped at the start of a protected interval
\* closer than a page size, with a newline or space just before the interval
C16_Witness ==
    /\ PipePaged
    /\ \E k \in 1..Len(pipe.fc.protected_interval) :
           \E j \in 1..Len(pipe.pages) :
               /\ ~pipe.pages[j].is_protected
               /\ pipe.pages[j].end_pos = pipe.fc.protected_interval[k].start_first
               /\ pipe.pages[j].end_pos < pipe.pages[j].start_pos + PAGE_SIZE
               /\ pipe.fc.content[pipe.pages[j].end_pos] \in {NL, SP}

\* C17: every protected interval is held by exactly one page, that page is
\* protected and spans [start_first, end_last + 1); every protected page
\* spans exactly one interval.
C17_OneProtectedPagePerInterval ==
    PipePaged =>
        /\ \A k \in 1..Len(pipe.fc.protected_interval) :
               LET iv == pipe.fc.protected_interval[k]
               IN  /\ Cardinality(PagesTouching(iv)) = 1
                   /\ \A j \in PagesTouching(iv) :
                          /\ pipe.pages[j].is_protected
                          /\ pipe.pages[j].start_pos = iv.start_first
                          /\ pipe.pages[j].end_pos = iv.end_last + 1
        /\ \A j \in 1..Len(pipe.pages) :
               pipe.pages[j].is_protected =>
                   Cardinality({k \in 1..Len(pipe.fc.protected_interval) :
                                    /\ pipe.fc.protected_interval[k].start_first
                                           = pipe.pages[j].start_pos
                                    /\ pipe.fc.protected_interval[k].end_last + 1
                                           = pipe.pages[j].end_pos}) = 1

\* two adjacent protected intervals, each on a page of its own, the second
\* followed by regular text
C17_Witness ==
    /\ PipePaged
    /\ \E j \in 1..(Len(pipe.pages) - 2) :
           /\ pipe.pages[j].is_protected
           /\ pipe.pages[j + 1].is_protected
           /\ ~pipe.pages[j + 2].is_protected

\* C18: in the scanner's output each interval has start_first <= end_last,
\* and each interval starts after the end_last of the one before it (hence
\* start_first strictly increases and the intervals are pairwise disjoint).
C18_IntervalsSortedDisjoint ==
    PipePaged =>
        LET ivs == pipe.fc.protected_interval
        IN  /\ \A k \in 1..Len(ivs) : ivs[k].start_first <= ivs[k].end_last
            /\ \A k \in 1..(Len(ivs) - 1) : ivs[k + 1].start_first > ivs[k].end_last

\* two intervals found with two configured marker pairs, the second
\* starting right after the first
C18_Witness ==
    /\ PipePaged
    /\ Len(pipe.regions) = 2
    /\ Len(pipe.fc.protected_interval) >= 2
    /\ pipe.fc.protected_interval[2].start_first = pipe.fc.protected_interval[1].end_last + 1
    /\ pipe.fc.protected_interval[1].end_marker_len # pipe.fc.protected_interval[2].end_marker_len

\* C19: the pool is shut down only after the dispatcher has ended; the
\* dispatcher ends only with the stop flag set and nothing queued or taken;
\* it never holds a batch for a pool that is shut down; when the destructor
\* has returned, the pool is empty, every worker has ended and every file
\* whose notification was enqueued has the bytes of its completed run,
\* written once (not at all for a total of zero).
C19_ShutdownDrains ==
    /\ pool_stop => disp.pc = "exited"
    /\ disp.pc = "exited" => (writeback_stop /\ wbq = <<>> /\ disp.batch = <<>>)
    /\ disp.pc = "submit" => ~pool_stop
    /\ caller.pc = "destroyed" =>
           /\ tasks = <<>>
           /\ \A w \in 1..nworkers : wk[w].pc = "exited"
           /\ \A i \in Files :
                  IF hist.wb_count[i] = 0
                  THEN disk[i] = hist.input[i] /\ hist.wrote[i] = <<>>
                  ELSE /\ disk[i] = SequentialRun(i, hist.input[i]).file
                       /\ Len(hist.wrote[i]) = IF fcs[i].total_replacements = 0 THEN 0 ELSE 1

\* the destructor has set the stop flag and waits for the dispatcher while a
\* notification with replacements is still queued
C19_Witness ==
    /\ caller.pc = "dtor_join"
    /\ disp.pc = "wait"
    /\ wbq # <<>>
    /\ Head(wbq).total > 0

\* C20: the pool's queue is first in, first out: a submit appends at the
\* back and leaves the queued tasks in place, a worker removes the front
\* task and leaves the others in order, so of two queued tasks the one
\* submitted first is taken first.
C20_FifoDequeue ==
    [][/\ Len(tasks') > Len(tasks) =>
              (Len(tasks') = Len(tasks) + 1 /\ SubSeq(tasks', 1, Len(tasks)) = tasks)
       /\ Len(tasks') < Len(tasks) =>
              /\ tasks' = Tail(tasks)
              /\ \E w \in 1..nworkers :
                     /\ wk[w].pc = "idle"
                     /\ wk'[w] = TaskEntry(Head(tasks))
       /\ Len(tasks') = Len(tasks) => tasks' = tasks]_vars

\* with two workers, the task of file 1 has been taken while the task of
\* file 2, submitted after it, is still queued behind a page task
C20_Witness ==
    /\ nworkers >= 2
    /\ Len(tasks) >= 2
    /\ \E w \in 1..nworkers : wk[w].pc = "page" /\ wk[w].j = 1
    /\ tasks[1].type = "page" /\ tasks[1].j = 2
    /\ tasks[Len(tasks)].type = "pre"


(***************************************************************************)
(* SpecPool: the ThreadPool on its own.  Threads outside the pool submit   *)
(* up to MaxPoolTasks tasks, with or without a continuation, at any time,  *)
(* also while shutdown is running and after it; a task returns a value or  *)
(* throws.  hist records, per task id, whether it carries a continuation,  *)
(* how often it ran, on which worker and with which outcome, the           *)
(* continuations invoked, the submissions refused and the tasks that were  *)
(* queued when shutdown set the stop flag.                                 *)
(***************************************************************************)
MaxPoolTasks == 2
MaxPoolWorkers == 2

\* the value task id returns when it does not throw
TaskValue(id) == IF id % 2 = 1 THEN "v1" ELSE "v2"

\* the log entry of a task that has not been submitted
NoTaskLog == [cb |-> FALSE, runs |-> 0, by |-> 0, outcome |-> "none"]

\* ThreadPool::ThreadPool(num_threads): the workers are started, _stop(false)
InitPool ==
    /\ MatcherIdle
    /\ PipeIdle
    /\ disk = <<>>
    /\ nworkers \in 1..MaxPoolWorkers
    /\ active_threads = 0
    /\ tasks = <<>>
    /\ wk = [w \in 1..nworkers |-> IdleWorker]
    /\ fcs = <<>>
    /\ file_contents = <<>>
    /\ file_pages = <<>>
    /\ page_results = <<>>
    /\ pending_tasks = 0
    /\ caller = [pc |-> "client"]
    /\ results = <<>>
    /\ wbq = <<>>
    /\ disp = [pc |-> "idle"]
    /\ hist = [next_id |-> 1, rejected |-> {}, at_stop |-> {},
               log |-> [id \in 1..MaxPoolTasks |-> NoTaskLog], cbs |-> <<>>]
    /\ ub = "none"

\* PoolSubmit that enqueues without looking at the stop flag
PoolSubmit_NoStopCheck(cb) ==
    /\ hist.next_id <= MaxPoolTasks
    /\ tasks' = submit(tasks, [type |-> "job", id |-> hist.next_id, cb |-> cb])
    /\ hist' = [hist EXCEPT !.next_id = @ + 1, !.log[hist.next_id].cb = cb]
    /\ UNCHANGED <<disk, nworkers, active_threads, wk, fcs, file_contents, file_pages,
                   page_results, pending_tasks, caller, results, wbq, disp, ub,
                   matcherVars, pipeVars>>

\* submit (cb = FALSE) and submit_with_callback (cb = TRUE): under _queue_mtx,
\* a stopped pool throws std::runtime_error, a running one enqueues the task
PoolSubmit(cb) ==
    /\ hist.next_id <= MaxPoolTasks
    /\ IF pool_stop
       THEN /\ hist' = [hist EXCEPT !.next_id = @ + 1, !.rejected = @ \cup {hist.next_id},
                                    !.log[hist.next_id].cb = cb]
            /\ UNCHANGED tasks
       ELSE /\ tasks' = submit(tasks, [type |-> "job", id |-> hist.next_id, cb |-> cb])
            /\ hist' = [hist EXCEPT !.next_id = @ + 1, !.log[hist.next_id].cb = cb]
    /\ UNCHANGED <<disk, nworkers, active_threads, wk, fcs, file_contents, file_pages,
                   page_results, pending_tasks, caller, results, wbq, disp, ub,
                   matcherVars, pipeVars>>

\* worker_thread: the front task is popped under _queue_mtx, then
\* _active_threads.fetch_add(1)
PoolTake(w) ==
    /\ w \in 1..nworkers
    /\ wk[w].pc = "idle"
    /\ tasks # <<>>
    /\ wk' = [wk EXCEPT ![w] = [pc |-> "run", task |-> Head(tasks)]]
    /\ tasks' = Tail(tasks)
    /\ active_threads' = active_threads + 1
    /\ UNCHANGED <<disk, nworkers, fcs, file_contents, file_pages, page_results,
                   pending_tasks, caller, results, wbq, disp, hist, ub,
                   matcherVars, pipeVars>>

\* PoolRun that goes on to the continuation although the task threw
PoolRun_CallbackAfterThrow(w) ==
    /\ w \in 1..nworkers
    /\ wk[w].pc = "run"
    /\ \E outcome \in {"throw", TaskValue(wk[w].task.id)} :
           /\ hist' = [hist EXCEPT !.log[wk[w].task.id].runs = @ + 1,
                                   !.log[wk[w].task.id].by = w,
                                   !.log[wk[w].task.id].outcome = outcome]
           /\ wk' = [wk EXCEPT ![w] =
                        IF wk[w].task.cb
                        THEN [pc |-> "cb", task |-> wk[w].task, value |-> outcome]
                        ELSE [pc |-> "done", task |-> wk[w].task,
                              threw |-> outcome = "throw"]]
    /\ UNCHANGED <<disk, nworkers, active_threads, tasks, fcs, file_contents, file_pages,
                   page_results, pending_tasks, caller, results, wbq, disp, ub,
                   matcherVars, pipeVars>>

\* the queued lambda runs the packaged task: (*task)() keeps a thrown
\* exception in the shared state; with a continuation, get_future().get()
\* rethrows it into the lambda's catch (...), past the call of cb
PoolRun(w) ==
    /\ w \in 1..nworkers
    /\ wk[w].pc = "run"
    /\ \E outcome \in {"throw", TaskValue(wk[w].task.id)} :
           /\ hist' = [hist EXCEPT !.log[wk[w].task.id].runs = @ + 1,
                                   !.log[wk[w].task.id].by = w,
                                   !.log[wk[w].task.id].outcome = outcome]
           /\ wk' = [wk EXCEPT ![w] =
                        IF wk[w].task.cb /\ outcome # "throw"
                        THEN [pc |-> "cb", task |-> wk[w].task, value |-> outcome]
                        ELSE [pc |-> "done", task |-> wk[w].task,
                              threw |-> outcome = "throw"]]
    /\ UNCHANGED <<disk, nworkers, active_threads, tasks, fcs, file_contents, file_pages,
                   page_results, pending_tasks, caller, results, wbq, disp, ub,
                   matcherVars, pipeVars>>

\* cb(task->get_future().get()): the continuation runs on the worker that ran
\* the task, with the value the task returned
PoolCallback(w) ==
    /\ w \in 1..nworkers
    /\ wk[w].pc = "cb"
    /\ hist' = [hist EXCEPT !.cbs = Append(@, [id |-> wk[w].task.id, by |-> w,
                                               value |-> wk[w].value])]
    /\ wk' = [wk EXCEPT ![w] = [pc |-> "done", task |-> wk[w].task, threw |-> FALSE]]
    /\ UNCHANGED <<disk, nworkers, active_threads, tasks, fcs, file_contents, file_pages,
                   page_results, pending_tasks, caller, results, wbq, disp, ub,
                   matcherVars, pipeVars>>

\* PoolFinish with no handler around task(): the exception leaves
\* worker_thread, past the fetch_sub
PoolFinish_ThrowEndsWorker(w) ==
    /\ w \in 1..nworkers
    /\ wk[w].pc = "done"
    /\ IF wk[w].threw
       THEN /\ wk' = [wk EXCEPT ![w] = [pc |-> "exited"]]
            /\ UNCHANGED active_threads
       ELSE /\ wk' = [wk EXCEPT ![w] = IdleWorker]
            /\ active_threads' = active_threads - 1
    /\ UNCHANGED <<disk, nworkers, tasks, fcs, file_contents, file_pages, page_results,
                   pending_tasks, caller, results, wbq, disp, hist, ub,
                   matcherVars, pipeVars>>

\* worker_thread: task() has returned or its exception was swallowed;
\* _active_threads.fetch_sub(1) and back to the wait
PoolFinish(w) ==
    /\ w \in 1..nworkers
    /\ wk[w].pc = "done"
    /\ wk' = [wk EXCEPT ![w] = IdleWorker]
    /\ active_threads' = active_threads - 1
    /\ UNCHANGED <<disk, nworkers, tasks, fcs, file_contents, file_pages, page_results,
                   pending_tasks, caller, results, wbq, disp, hist, ub,
                   matcherVars, pipeVars>>

\* ThreadPool::shutdown: _stop = true under _queue_mtx, notify_all; the
\* caller then joins the workers (DtorPoolJoin)
PoolShutdown ==
    /\ caller.pc = "client"
    /\ caller' = [caller EXCEPT !.pc = "pool_join"]
    /\ hist' = [hist EXCEPT !.at_stop = {tasks[k].id : k \in 1..Len(tasks)}]
    /\ UNCHANGED <<disk, nworkers, active_threads, tasks, wk, fcs, file_contents,
                   file_pages, page_results, pending_tasks, results, wbq, disp, ub,
                   matcherVars, pipeVars>>

\* one step of worker w's thread
PoolWorker(w) ==
    \/ PoolTake(w)
    \/ PoolRun(w)
    \/ PoolCallback(w)
    \/ PoolFinish(w)
    \/ (w \in 1..nworkers /\ WorkerExit(w))

NextPool ==
    \/ \E cb \in BOOLEAN : PoolSubmit(cb)
    \/ \E w \in 1..MaxPoolWorkers : PoolTake(w)
    \/ \E w \in 1..MaxPoolWorkers : PoolRun(w)
    \/ \E w \in 1..MaxPoolWorkers : PoolCallback(w)
    \/ \E w \in 1..MaxPoolWorkers : PoolFinish(w)
    \/ PoolShutdown
    \/ \E w \in 1..nworkers : WorkerExit(w)
    \/ DtorPoolJoin

SpecPool == InitPool /\ [][NextPool]_vars

\* every worker thread and the thread inside shutdown keep being scheduled
SpecPoolFair ==
    /\ InitPool
    /\ [][NextPool]_vars
    /\ \A w \in 1..MaxPoolWorkers : WF_vars(PoolWorker(w))
    /\ WF_vars(DtorPoolJoin)


(***************************************************************************)
(* Properties of the ThreadPool                                            *)
(***************************************************************************)
\* the workers whose thread function has not returned
LiveWorkers == {w \in 1..nworkers : wk[w].pc # "exited"}

\* the workers between fetch_add and fetch_sub
BusyWorkers == {w \in 1..nworkers : wk[w].pc \in {"run", "cb", "done"}}

\* the ids of the queued tasks
QueuedIds == {tasks[k].id : k \in 1..Len(tasks)}

\* task id has run and no worker is still inside it or its continuation
TaskCompleted(id) ==
    /\ hist.log[id].runs >= 1
    /\ \A w \in BusyWorkers : wk[w].task.id # id

\* C21: a task that throws does not end its worker: until shutdown sets
\* the stop flag every worker is alive, the active count equals the number
\* of workers inside a task, and the step a worker takes after a task threw
\* gives the active count back and returns the worker to the idle wait,
\* where it takes later tasks.
C21_ThrowKeepsWorker ==
    /\ [](/\ ~pool_stop => Cardinality(LiveWorkers) = nworkers
          /\ active_threads = Cardinality(BusyWorkers))
    /\ [][\A w \in 1..nworkers :
              (wk[w].pc = "done" /\ wk[w].threw /\ wk'[w] # wk[w]) =>
                  (wk'[w] = IdleWorker /\ active_threads' = active_threads - 1)]_vars

\* a worker runs a task after a task it ran earlier threw
C21_Witness ==
    \E w \in 1..nworkers :
        /\ wk[w].pc = "run"
        /\ \E id \in 1..MaxPoolTasks :
               hist.log[id].by = w /\ hist.log[id].outcome = "throw"

\* C22: a submit or submit_with_callback made while the stop flag is set
\* is refused and leaves the queue as it was, and a refused task is never
\* queued, never held by a worker and never run.
C22_SubmitAfterStopFails ==
    /\ [](\A id \in hist.rejected :
              /\ hist.log[id].runs = 0
              /\ id \notin QueuedIds
              /\ \A w \in BusyWorkers : wk[w].task.id # id)
    /\ [][(pool_stop /\ hist'.next_id # hist.next_id) =>
              (tasks' = tasks /\ hist'.rejected = hist.rejected \cup {hist.next_id})]_vars

\* a submission was refused while tasks accepted before shutdown are still
\* queued
C22_Witness ==
    /\ hist.rejected # {}
    /\ tasks # <<>>
    /\ caller.pc = "pool_join"

\* C23: shutdown returns only after every worker has exited, a worker
\* exits only with the stop flag set and the queue empty, no task runs
\* twice, every task accepted before shutdown has run exactly once when
\* shutdown returns, and with every thread scheduled shutdown returns.
C23_PoolShutdownDrains ==
    /\ [](/\ caller.pc = "destroyed" =>
                 /\ LiveWorkers = {}
                 /\ tasks = <<>>
                 /\ \A id \in 1..(hist.next_id - 1) :
                        id \notin hist.rejected => hist.log[id].runs = 1
          /\ \A id \in 1..MaxPoolTasks : hist.log[id].runs <= 1)
    /\ [][\A w \in 1..nworkers :
              (wk[w].pc # "exited" /\ wk'[w].pc = "exited") =>
                  (pool_stop /\ tasks = <<>>)]_vars
    /\ (pool_stop ~> caller.pc = "destroyed")

\* shutdown has returned and tasks were still queued when it set the flag
C23_Witness ==
    /\ caller.pc = "destroyed"
    /\ hist.at_stop # {}

C25_PoolHasNWorkers ==
    [][(caller.pc = "start" /\ caller'.pc = "submit") =>
           \E max_threads \in 0..MaxThreadsArg, hw \in 0..MaxHardware :
               nworkers' = NumThreads(max_threads, Len(disk), hw)]_vars


(***************************************************************************)
(* SpecSample: is_text_file on its own.  A file is given by its size and   *)
(* the number of NUL bytes at its start; the call reads the sample and     *)
(* answers.                                                                *)
(***************************************************************************)
MaxFileBytes == 1025
MaxNulls == 32

\* the file of the given size whose first bytes are the given number of NULs
SampleFile(size, nulls) ==
    [exists |-> TRUE, bytes |-> [k \in 1..size |-> IF k <= nulls THEN NUL ELSE "a"]]

InitSample ==
    /\ MatcherIdle
    /\ ProcIdle
    /\ pipe \in {[pc |-> "sample", size |-> n, nulls |-> z] :
                    n \in 0..MaxFileBytes, z \in 0..MaxNulls}
    /\ pipe.nulls <= pipe.size

\* one call of is_text_file
SampleCall ==
    /\ pipe.pc = "sample"
    /\ pipe' = [pc |-> "sampled", size |-> pipe.size, nulls |-> pipe.nulls,
                is_text |-> is_text_file(SampleFile(pipe.size, pipe.nulls))]
    /\ UNCHANGED <<matcherVars, procVars>>

NextSample == SampleCall

SpecSample == InitSample /\ [][NextSample]_vars

\* n: the bytes is_text_file read from the file of the state
BytesRead == Min(pipe.size, SAMPLE_SIZE)

\* C26 as stated: a file is text iff 100 * z < n, for every 0 <= z <= n.
C26_TextIffBelowOnePercent ==
    pipe.pc = "sampled" => (pipe.is_text <=> 100 * pipe.nulls < BytesRead)

\* C26, amended: a file of which no byte could be read is text; a file
\* with n >= 1 bytes read is text iff 100 * z < n.
C26_TextIffBelowOnePercentOrEmpty ==
    pipe.pc = "sampled" =>
        (pipe.is_text <=> (BytesRead = 0 \/ 100 * pipe.nulls < BytesRead))

\* the empty file has been found to be text
C26_Witness ==
    /\ pipe.pc = "sampled"
    /\ pipe.size = 0
    /\ pipe.is_text


(***************************************************************************)
(* Properties of the batch coordination                                    *)
(***************************************************************************)
\* the continuation of file i has not run yet: its preprocess task is not
\* submitted, is queued, or has been taken and is about to call it
NotYetContinued(i) ==
    \/ caller.pc = "submit" /\ i > caller.i
    \/ \E k \in 1..Len(tasks) : tasks[k].type = "pre" /\ tasks[k].i = i
    \/ \E w \in 1..nworkers : wk[w].pc = "callback" /\ wk[w].i = i

\* the page tasks of file i that have not stored their PageResult
PagesOutstanding(i) ==
    Cardinality({j \in 1..Len(page_results[i]) : page_results[i][j].file_path # i})

\* C27: from the moment process_files has set the pending counter, the
\* counter equals the number of files whose continuation has not run plus
\* the number of page tasks, of the files whose continuation has run, that
\* have not stored their PageResult; so it is never negative and it is
\* zero only when every continuation has run and every page task has
\* stored its result.
C27_PendingCounts ==
    /\ pending_tasks >= 0
    /\ caller.pc # "start" =>
           pending_tasks = SumSeq([i \in 1..Len(disk) |->
                                      IF NotYetContinued(i) THEN 1
                                      ELSE PagesOutstanding(i)])

\* the counter is back at zero after a file of several pages raised it and
\* another file failed to load
C27_Witness ==
    /\ pending_tasks = 0
    /\ caller.pc = "wait_check"
    /\ \E i \in 1..Len(disk) : Len(page_results[i]) >= 2
    /\ \E i \in 1..Len(disk) : ~file_contents[i]


\* the tasks that have still to write slot pid of file i: queued page tasks
\* and workers inside process_page before the store
SlotWriters(i, j) ==
    Cardinality({k \in 1..Len(tasks) :
                     tasks[k].type = "page" /\ tasks[k].i = i /\ tasks[k].j = j})
    + Cardinality({w \in 1..nworkers : wk[w].pc = "page" /\ wk[w].i = i /\ wk[w].j = j})

\* a writeback of file i is queued, handed out or running
WritebackPending(i) ==
    \/ \E k \in 1..Len(wbq) : wbq[k].i = i
    \/ disp.pc \in {"submit", "inline"} /\ \E k \in 1..Len(disp.batch) : disp.batch[k].i = i
    \/ \E k \in 1..Len(tasks) : tasks[k].type = "writeback" /\ tasks[k].i = i
    \/ \E w \in 1..nworkers : wk[w].pc = "writeback" /\ wk[w].i = i

\* C28: every slot of processed_pages has at most one task that has still
\* to write it and none once it is written; a slot changes only in the
\* store of the page task whose page id is the slot's index; and while a
\* writeback of a file is queued or running every slot of the file is
\* written and no page task of the file is left.
C28_SlotsWrittenOnceBeforeRead ==
    /\ [](\A i \in 1..Len(disk) :
              /\ \A j \in 1..Len(file_pages[i]) :
                     SlotWriters(i, j) +
                         (IF file_pages[i][j].pid \in hist.stored[i] THEN 1 ELSE 0) <= 1
              /\ WritebackPending(i) =>
                     \A j \in 1..Len(file_pages[i]) :
                         /\ file_pages[i][j].pid \in hist.stored[i]
                         /\ SlotWriters(i, j) = 0)
    /\ [][\A i \in 1..Len(disk) :
              \A s \in 1..Len(fcs[i].processed_pages) :
                  (/\ Len(fcs'[i].processed_pages) = Len(fcs[i].processed_pages)
                   /\ fcs'[i].processed_pages[s] # fcs[i].processed_pages[s]) =>
                      \E w \in 1..nworkers :
                          /\ wk[w].pc = "page" /\ wk[w].i = i
                          /\ wk'[w].pc = "page_dec"
                          /\ file_pages[i][wk[w].j].pid + 1 = s
                          /\ file_pages[i][wk[w].j].pid \notin hist.stored[i]]_vars

\* a writeback of a file of several pages is running on a worker while a
\* page task of another file has still to write its slot
C28_Witness ==
    \E w \in 1..nworkers :
        /\ wk[w].pc = "writeback"
        /\ Len(file_pages[wk[w].i]) >= 2
        /\ \E v \in 1..nworkers : wk[v].pc = "page" /\ wk[v].i # wk[w].i


(***************************************************************************)
(* Properties of the writeback dispatcher                                  *)
(***************************************************************************)
\* the copies of file i's notification that are queued, handed out or
\* being written
InFlight(i) ==
    Cardinality({k \in 1..Len(wbq) : wbq[k].i = i})
    + (IF disp.pc \in {"submit", "inline"}
       THEN Cardinality({k \in 1..Len(disp.batch) : disp.batch[k].i = i}) ELSE 0)
    + Cardinality({k \in 1..Len(tasks) : tasks[k].type = "writeback" /\ tasks[k].i = i})
    + Cardinality({w \in 1..nworkers : wk[w].pc = "writeback" /\ wk[w].i = i})

\* C29: a dispatch round takes, with idle workers reported, a front part
\* of the queue of at most idle_count notifications for the pool and, with
\* none, exactly the front notification for an inline write; each submit
\* of a batch adds one writeback task; a notification is never duplicated
\* and a file with replacements has been written once for each
\* notification no longer in flight; and no run ends with a notification
\* still waiting to be handled.
C29_EveryNotificationHandled ==
    /\ [](\A i \in 1..Len(disk) :
              /\ InFlight(i) <= hist.wb_count[i]
              /\ Len(hist.wrote[i]) + InFlight(i) <= hist.wb_count[i]
              /\ (fcs[i].total_replacements > 0 /\ ub # "crashed") =>
                     Len(hist.wrote[i]) + InFlight(i) = hist.wb_count[i])
    /\ [][/\ (disp.pc = "wait" /\ disp'.pc = "submit") =>
                 /\ idle_threads > 0
                 /\ Len(disp'.batch) <= idle_threads
                 /\ wbq = disp'.batch \o wbq'
          /\ (disp.pc = "wait" /\ disp'.pc = "inline") =>
                 /\ idle_threads <= 0
                 /\ Len(disp'.batch) = 1
                 /\ wbq = disp'.batch \o wbq'
          /\ (disp.pc = "submit" /\ disp'.pc \in {"submit", "wait"} /\ disp' # disp) =>
                 /\ tasks' = Append(tasks, [type |-> "writeback", i |-> Head(disp.batch).i,
                                            total |-> Head(disp.batch).total])
                 /\ disp'.batch = IF Len(disp.batch) = 1 THEN <<>> ELSE Tail(disp.batch)]_vars
    /\ [](ub = "crashed" => \A i \in 1..Len(disk) : InFlight(i) = 0)


(***************************************************************************)
(* SpecScan: build_protected_intervals, one iteration of its while loop    *)
(* per step                                                                *)
(***************************************************************************)
MaxScanLen == 4

ScanAlphabet == {"a", "#"}

\* protected regions in configured order: PROTECT(START_MARKER, END_MARKER)
\* and PROTECT_CONTENT(CONTENT), whose end marker is empty
ScanRegionSets ==
    { << << <<"#">>, <<"#">> >> >>,
      << << <<"#", "a">>, <<>> >>, << <<"#">>, <<"#">> >> >>,
      << << <<"a", "#">>, <<"a">> >>, << <<"#">>, <<>> >> >>,
      << << <<"#">>, <<"a">> >>, << <<"#">>, <<"#">> >> >> }

\* ScanIter that searches the end marker from pos, inside the start marker
ScanIter_EndSearchFromStart(text, regions, pos, intervals) ==
    IF pos >= Len(text) THEN [done |-> TRUE, pos |-> pos, intervals |-> intervals]
    ELSE IF Len(text) - pos < Len(regions[1][1])
    THEN [done |-> TRUE, pos |-> pos, intervals |-> intervals]
    ELSE LET hits == {k \in 1..Len(regions) : StartsWithAt(text, pos, regions[k][1])}
         IN  IF hits = {} THEN [done |-> FALSE, pos |-> pos + 1, intervals |-> intervals]
             ELSE LET k == CHOOSE h \in hits : \A q \in hits : h <= q
                      start_marker == regions[k][1]
                      end_marker == regions[k][2]
                      end_begin == Find(text, end_marker, pos)
                  IN  IF end_begin = npos
                      THEN [done |-> TRUE, pos |-> pos, intervals |-> intervals]
                      ELSE [done |-> FALSE, pos |-> end_begin + Len(end_marker),
                            intervals |->
                                Append(intervals,
                                       Interval(pos,
                                                (end_begin + Len(end_marker) - 1) % SizeMod,
                                                Len(start_marker), Len(end_marker)))]

\* one evaluation of the loop condition and, if it holds, one loop body
ScanIter(text, regions, pos, intervals) ==
    IF pos >= Len(text) THEN [done |-> TRUE, pos |-> pos, intervals |-> intervals]
    ELSE IF Len(text) - pos < Len(regions[1][1])
    THEN [done |-> TRUE, pos |-> pos, intervals |-> intervals]
    ELSE LET hits == {k \in 1..Len(regions) : StartsWithAt(text, pos, regions[k][1])}
         IN  IF hits = {} THEN [done |-> FALSE, pos |-> pos + 1, intervals |-> intervals]
             ELSE LET k == CHOOSE h \in hits : \A q \in hits : h <= q
                      start_marker == regions[k][1]
                      end_marker == regions[k][2]
                      end_begin == Find(text, end_marker, pos + Len(start_marker))
                  IN  IF end_begin = npos
                      THEN [done |-> TRUE, pos |-> pos, intervals |-> intervals]
                      ELSE [done |-> FALSE, pos |-> end_begin + Len(end_marker),
                            intervals |->
                                Append(intervals,
                                       Interval(pos,
                                                (end_begin + Len(end_marker) - 1) % SizeMod,
                                                Len(start_marker), Len(end_marker)))]

\* the call: no regions or an empty text return at once
InitScan ==
    /\ MatcherIdle
    /\ ProcIdle
    /\ \E text \in TextsUpTo(ScanAlphabet, MaxScanLen), regions \in ScanRegionSets \cup {<<>>} :
           pipe = [pc |-> IF regions = <<>> \/ text = <<>> THEN "scanned" ELSE "scan",
                   text |-> text, regions |-> regions, pos |-> 0, intervals |-> <<>>]

\* ScanStep that steps over the position where the loop was left inside the
\* text and scans on
ScanStep_ScansOn ==
    /\ pipe.pc = "scan"
    /\ LET r == ScanIter(pipe.text, pipe.regions, pipe.pos, pipe.intervals)
           on == r.done /\ r.pos < Len(pipe.text)
       IN  pipe' = [pc |-> IF r.done /\ ~on THEN "scanned" ELSE "scan",
                    text |-> pipe.text, regions |-> pipe.regions,
                    pos |-> IF on THEN r.pos + 1 ELSE r.pos,
                    intervals |-> IF r.done /\ ~on THEN SortByStart(r.intervals)
                                  ELSE r.intervals]
    /\ UNCHANGED <<matcherVars, procVars>>

\* one iteration; leaving the loop sorts the intervals and returns
ScanStep ==
    /\ pipe.pc = "scan"
    /\ LET r == ScanIter(pipe.text, pipe.regions, pipe.pos, pipe.intervals)
       IN  pipe' = [pc |-> IF r.done THEN "scanned" ELSE "scan",
                    text |-> pipe.text, regions |-> pipe.regions, pos |-> r.pos,
                    intervals |-> IF r.done THEN SortByStart(r.intervals) ELSE r.intervals]
    /\ UNCHANGED <<matcherVars, procVars>>

\* the replacement map of SpecScan
ScanRules == { << <<"a">>, <<"b">> >> }

\* preprocess_file goes on: create_pages on the scanned content
ScanPaginate ==
    /\ pipe.pc = "scanned"
    /\ pipe' = [pc |-> "paged", text |-> pipe.text, regions |-> pipe.regions,
                pos |-> pipe.pos, intervals |-> pipe.intervals,
                pages |-> create_pages(pipe.text, pipe.intervals)]
    /\ UNCHANGED <<matcherVars, procVars>>

\* process_page for every page, in page order
ScanProcess ==
    /\ pipe.pc = "paged"
    /\ pipe' = [pc |-> "processed", text |-> pipe.text, regions |-> pipe.regions,
                pos |-> pipe.pos, intervals |-> pipe.intervals, pages |-> pipe.pages,
                processed_pages |->
                    [j \in 1..Len(pipe.pages) |->
                        PageText(ScanRules, pipe.text, pipe.pages[j]).text]]
    /\ UNCHANGED <<matcherVars, procVars>>

NextScan ==
    \/ ScanStep
    \/ ScanPaginate
    \/ ScanProcess

SpecScan == InitScan /\ [][NextScan]_vars

\* the configured regions whose start marker is a prefix of text[pos..]
StartHits == {k \in 1..Len(pipe.regions) :
                  StartsWithAt(pipe.text, pipe.pos, pipe.regions[k][1])}

\* C30: at every position inside the text that the scan reaches, if some
\* start marker is a prefix of the rest of the text, the first such region
\* in configured order is the one selected (its end marker is searched and
\* its interval recorded, or the scan ends because the end marker is
\* missing); the cursor advances by 1 only when no start marker matches.
C30_FirstMatchingStartSelected ==
    [][(pipe.pc = "scan" /\ pipe.pos < Len(pipe.text)) =>
           IF StartHits = {}
           THEN pipe'.intervals = pipe.intervals
           ELSE LET k == CHOOSE h \in StartHits : \A q \in StartHits : h <= q
                    from == pipe.pos + Len(pipe.regions[k][1])
                    end_begin == Find(pipe.text, pipe.regions[k][2], from)
                IN  IF end_begin = npos
                    THEN pipe'.pc = "scanned"
                    ELSE /\ pipe'.pc = "scan"
                         /\ pipe'.pos = end_begin + Len(pipe.regions[k][2])
                         /\ pipe'.intervals =
                                Append(pipe.intervals,
                                       [start_first |-> pipe.pos,
                                        end_last |-> end_begin + Len(pipe.regions[k][2]) - 1,
                                        start_marker_len |-> Len(pipe.regions[k][1]),
                                        end_marker_len |-> Len(pipe.regions[k][2])])]_vars


\* the first configured region whose start marker is a prefix of text[pos..]
FirstHit == CHOOSE h \in StartHits : \A q \in StartHits : h <= q

\* the first occurrence of the end marker of region k at or after from;
\* Len(text) + 1 when there is none
FirstEndOccurrence(k, from) ==
    LET occ == {p \in from..Len(pipe.text) : StartsWithAt(pipe.text, p, pipe.regions[k][2])}
    IN  IF occ = {} THEN Len(pipe.text) + 1
        ELSE CHOOSE p \in occ : \A q \in occ : p <= q

\* at the cursor a start marker matches and the end marker of the first
\* matching region does not occur behind it
UnterminatedHere ==
    /\ pipe.pos < Len(pipe.text)
    /\ StartHits # {}
    /\ FirstEndOccurrence(FirstHit, pipe.pos + Len(pipe.regions[FirstHit][1])) > Len(pipe.text)

\* C31: when the start marker matching at the cursor has no end marker
\* behind it, the iteration ends the scan with the intervals emitted so far
\* and nothing more; the content is then paged completely, the pages from
\* the cursor on are regular pages, and every page is processed.
C31_UnterminatedStopsScan ==
    /\ [][(pipe.pc = "scan" /\ UnterminatedHere) =>
              (/\ pipe'.pc = "scanned"
               /\ pipe'.pos = pipe.pos
               /\ pipe'.intervals = pipe.intervals)]_vars
    /\ []((pipe.pc \in {"paged", "processed"} /\ UnterminatedHere) =>
              /\ pipe.pages # <<>>
              /\ pipe.pages[1].start_pos = 0
              /\ pipe.pages[Len(pipe.pages)].end_pos = Len(pipe.text)
              /\ \A j \in 1..Len(pipe.pages) - 1 :
                     pipe.pages[j].end_pos = pipe.pages[j + 1].start_pos
              /\ \A j \in 1..Len(pipe.pages) :
                     pipe.pages[j].end_pos > pipe.pos => ~pipe.pages[j].is_protected
              /\ pipe.pc = "processed" =>
                     \A j \in 1..Len(pipe.pages) :
                         pipe.processed_pages[j] =
                             IF pipe.pages[j].is_protected
                             THEN SubSeq(pipe.text, pipe.pages[j].start_pos + 1,
                                         pipe.pages[j].end_pos)
                             ELSE apply_replace(ScanRules,
                                                SubSeq(pipe.text, pipe.pages[j].start_pos + 1,
                                                       pipe.pages[j].end_pos)).text)

\* a region was found, a later start marker had no end, and the file has
\* been processed
C31_Witness ==
    /\ pipe.pc = "processed"
    /\ UnterminatedHere
    /\ pipe.intervals # <<>>
    /\ Len(pipe.text) - pipe.pos >= Len(pipe.regions[1][1])


\* at the cursor a start marker matches and the end marker of the first
\* matching region occurs behind it
TerminatedHere ==
    /\ pipe.pos < Len(pipe.text)
    /\ StartHits # {}
    /\ FirstEndOccurrence(FirstHit, pipe.pos + Len(pipe.regions[FirstHit][1])) <= Len(pipe.text)

\* the interval and the cursor of a matched pair
PairEmitted ==
    LET start_len == Len(pipe.regions[FirstHit][1])
        end_len == Len(pipe.regions[FirstHit][2])
        end_begin == FirstEndOccurrence(FirstHit, pipe.pos + start_len)
    IN  /\ pipe'.intervals =
               Append(pipe.intervals,
                      [start_first |-> pipe.pos, end_last |-> end_begin + end_len - 1,
                       start_marker_len |-> start_len, end_marker_len |-> end_len])
        /\ pipe'.pos = end_begin + end_len
        /\ end_len = 0 =>
               /\ pipe'.intervals[Len(pipe'.intervals)].end_last = pipe.pos + start_len - 1
               /\ pipe'.pos = pipe.pos + start_len

\* C32: when a start marker matches at the cursor and the end marker of the
\* first matching region first occurs at end_begin behind it, the iteration
\* appends the interval [pos, end_begin + end_len - 1] and moves the cursor
\* to end_begin + end_len; with an empty end marker that is the start
\* marker occurrence [pos, pos + start_len - 1] and the cursor pos + start_len.
C32_MatchedPairInterval ==
    [][(pipe.pc = "scan" /\ TerminatedHere) => PairEmitted]_vars


\* C40: with non-empty start markers every iteration of the scanner either
\* ends the scan or moves the cursor forward, also when the matched region
\* has an empty end marker, and the cursor never passes the end of the text;
\* so the scan ends after at most Len(text) + 1 iterations.
C40_ScannerAdvancesOrStops ==
    /\ [][pipe.pc = "scan" =>
              \/ pipe'.pc = "scanned"
              \/ pipe'.pc = "scan" /\ pipe'.pos > pipe.pos]_vars
    /\ [](pipe.pc \in {"scan", "scanned"} =>
              /\ pipe.pos <= Len(pipe.text)
              /\ \A k \in 1..Len(pipe.regions) : pipe.regions[k][1] # <<>>)

\* the scan went on behind a region with an empty end marker
C40_Witness ==
    /\ pipe.pc = "scan"
    /\ pipe.pos > 0
    /\ pipe.pos < Len(pipe.text)
    /\ pipe.intervals # <<>>
    /\ pipe.intervals[Len(pipe.intervals)].end_marker_len = 0


(***************************************************************************)
(* SpecPager: FileProcessor::create_pages, one loop iteration per step, on *)
(* every content up to MaxPagerLen scalars and every sorted list of        *)
(* non-overlapping non-empty intervals inside it                           *)
(***************************************************************************)
MaxPagerLen == 5

PagerAlphabet == {"a", SP, NL}

\* the sorted lists of non-overlapping intervals inside [from, n)
RECURSIVE PagerIntervalLists(_, _)
PagerIntervalLists(from, n) ==
    {<<>>} \cup
    UNION { UNION { { <<Interval(s, e, e - s + 1, 0)>> \o rest :
                      rest \in PagerIntervalLists(e + 1, n) } :
                    e \in s..(n - 1) } :
            s \in from..(n - 1) }

\* PagerIter whose protected page ends at end_last instead of skip_to()
PagerIter_SkipToEndLast(content, intervals, start_pos, interval_idx, pages) ==
    IF start_pos >= Len(content)
    THEN [done |-> TRUE, start_pos |-> start_pos, interval_idx |-> interval_idx,
          pages |-> pages]
    ELSE LET in_range == interval_idx < Len(intervals)
             next_start == IF in_range THEN intervals[interval_idx + 1].start_first ELSE 0
             has_protected_ahead == in_range /\ next_start >= start_pos
         IN  IF has_protected_ahead /\ start_pos = next_start
             THEN LET end_pos == intervals[interval_idx + 1].end_last
                  IN  [done |-> FALSE, start_pos |-> end_pos,
                       interval_idx |-> interval_idx + 1,
                       pages |-> Append(pages, Page(Len(pages), start_pos, end_pos, TRUE))]
             ELSE LET end_pos == RegularPageEnd(content, start_pos, has_protected_ahead, next_start)
                  IN  [done |-> FALSE, start_pos |-> end_pos,
                       interval_idx |-> interval_idx,
                       pages |-> Append(pages, Page(Len(pages), start_pos, end_pos, FALSE))]

\* one evaluation of the loop condition and, if it holds, one loop body
PagerIter(content, intervals, start_pos, interval_idx, pages) ==
    IF start_pos >= Len(content)
    THEN [done |-> TRUE, start_pos |-> start_pos, interval_idx |-> interval_idx,
          pages |-> pages]
    ELSE LET in_range == interval_idx < Len(intervals)
             next_start == IF in_range THEN intervals[interval_idx + 1].start_first ELSE 0
             has_protected_ahead == in_range /\ next_start >= start_pos
         IN  IF has_protected_ahead /\ start_pos = next_start
             THEN LET end_pos == intervals[interval_idx + 1].end_last + 1
                  IN  [done |-> FALSE, start_pos |-> end_pos,
                       interval_idx |-> interval_idx + 1,
                       pages |-> Append(pages, Page(Len(pages), start_pos, end_pos, TRUE))]
             ELSE LET end_pos == RegularPageEnd(content, start_pos, has_protected_ahead, next_start)
                  IN  [done |-> FALSE, start_pos |-> end_pos,
                       interval_idx |-> interval_idx,
                       pages |-> Append(pages, Page(Len(pages), start_pos, end_pos, FALSE))]

\* the call: an empty content returns no pages at once
InitPager ==
    /\ MatcherIdle
    /\ ProcIdle
    /\ \E content \in TextsUpTo(PagerAlphabet, MaxPagerLen) :
       \E intervals \in PagerIntervalLists(0, Len(content)) :
           pipe = [pc |-> IF content = <<>> THEN "paged" ELSE "page",
                   content |-> content, intervals |-> intervals,
                   start_pos |-> 0, interval_idx |-> 0, pages |-> <<>>]

\* one iteration; leaving the loop returns the pages
PagerStep ==
    /\ pipe.pc = "page"
    /\ LET r == PagerIter(pipe.content, pipe.intervals, pipe.start_pos,
                          pipe.interval_idx, pipe.pages)
       IN  pipe' = [pc |-> IF r.done THEN "paged" ELSE "page",
                    content |-> pipe.content, intervals |-> pipe.intervals,
                    start_pos |-> r.start_pos, interval_idx |-> r.interval_idx,
                    pages |-> r.pages]
    /\ UNCHANGED <<matcherVars, procVars>>

NextPager == PagerStep

SpecPager == InitPager /\ [][NextPager]_vars

\* the end of the regular page at the cursor before the boundary search:
\* one page size, the end of the content or the start of the next interval
TentativeEnd ==
    LET in_range == pipe.interval_idx < Len(pipe.intervals)
        next_start == IF in_range THEN pipe.intervals[pipe.interval_idx + 1].start_first ELSE 0
        end_pos == Min(pipe.start_pos + PAGE_SIZE, Len(pipe.content))
    IN  IF in_range /\ next_start >= pipe.start_pos /\ end_pos > next_start
        THEN next_start ELSE end_pos

\* the iteration at the cursor emits a regular page
RegularPageHere ==
    /\ pipe.pc = "page"
    /\ pipe.start_pos < Len(pipe.content)
    /\ ~(/\ pipe.interval_idx < Len(pipe.intervals)
         /\ pipe.intervals[pipe.interval_idx + 1].start_first = pipe.start_pos)

\* a newline or a space among the last SNAP_WINDOW scalars of the page that
\* ends at the tentative end
BoundaryInWindow ==
    \E p \in Max(pipe.start_pos, TentativeEnd - SNAP_WINDOW)..(TentativeEnd - 1) :
        pipe.content[p + 1] \in {NL, SP}

\* C33: a regular page is at most PAGE_SIZE + SNAP_WINDOW scalars long, the
\* boundary search moves the end only to a newline or space among the last
\* SNAP_WINDOW scalars before the tentative end, and when neither is there
\* the page ends at the tentative end.
C33_RegularPageBounded ==
    [][RegularPageHere =>
          LET page == pipe'.pages[Len(pipe'.pages)]
          IN  /\ ~page.is_protected
              /\ page.start_pos = pipe.start_pos
              /\ page.end_pos - page.start_pos <= PAGE_SIZE + SNAP_WINDOW
              /\ page.end_pos > TentativeEnd - SNAP_WINDOW
              /\ ~BoundaryInWindow => page.end_pos = TentativeEnd]_vars


\* C39: on a sorted list of non-overlapping non-empty intervals every
\* iteration of the pager either leaves the loop at the end of the content
\* or emits one non-empty page that starts at the cursor and moves the
\* cursor to its end, so the cursor strictly increases and never passes the
\* end of the content; every returned page is non-empty.
C39_PagerAdvances ==
    /\ [][pipe.pc = "page" =>
              \/ /\ pipe'.pc = "paged"
                 /\ pipe.start_pos = Len(pipe.content)
                 /\ pipe'.pages = pipe.pages
              \/ /\ pipe'.pc = "page"
                 /\ pipe.start_pos < Len(pipe.content)
                 /\ pipe'.start_pos > pipe.start_pos
                 /\ pipe'.pages =
                        Append(pipe.pages,
                               [pid |-> Len(pipe.pages), start_pos |-> pipe.start_pos,
                                end_pos |-> pipe'.start_pos,
                                is_protected |-> ~RegularPageHere])]_vars
    /\ [](pipe.pc \in {"page", "paged"} =>
              /\ pipe.start_pos <= Len(pipe.content)
              /\ \A j \in 1..Len(pipe.pages) : pipe.pages[j].start_pos < pipe.pages[j].end_pos
              /\ \A k \in 1..Len(pipe.intervals) :
                     /\ pipe.intervals[k].start_first <= pipe.intervals[k].end_last
                     /\ pipe.intervals[k].end_last < Len(pipe.content)
                     /\ k > 1 => pipe.intervals[k - 1].end_last < pipe.intervals[k].start_first)

\* the pager returned a regular page that the boundary search cut short at
\* a space or newline, and went on behind it
C39_Witness ==
    /\ pipe.pc = "paged"
    /\ \E j \in 1..(Len(pipe.pages) - 1) :
           /\ ~pipe.pages[j].is_protected
           /\ pipe.pages[j].end_pos - pipe.pages[j].start_pos < PAGE_SIZE
           /\ pipe.content[pipe.pages[j].end_pos] \in {NL, SP}
           /\ \A k \in 1..Len(pipe.intervals) :
                  pipe.intervals[k].start_first > pipe.pages[j].end_pos


\* worker w is inside a continuation or a page task of process_files: it
\* still has a store into page_results, file_contents or file_pages, an
\* update of the pending counter or a completion_cv.notify_one() ahead
BatchLocalAccessAhead(w) ==
    wk[w].pc \in {"callback", "submit_pages", "page", "page_dec", "page_notify",
                  "page_done", "signal"}

\* C36: once process_files has returned no worker is inside a continuation
\* or a page task, so none stores into the batch-local vectors, updates the
\* pending counter or signals the condition variable after the return, and
\* no call on a destroyed object happens.
C36_NoAccessAfterReturn ==
    /\ ProcessFilesReturned => \A w \in 1..nworkers : ~BatchLocalAccessAhead(w)
    /\ ub = "none"


(***************************************************************************)
(* SpecSum: process_files on batches of a file with three pages, two of    *)
(* which have a replacement                                                *)
(***************************************************************************)
\* a pattern, a protected region, a pattern: two regular pages around a
\* protected page
CountFile == [exists |-> TRUE, bytes |-> <<",", "#", "#", ",">>]

\* the file alone and next to a path that cannot be opened
SumBatches == {<<CountFile>>, <<CountFile, MissingFile>>, <<MissingFile, CountFile>>}

InitSum ==
    /\ disk \in SumBatches
    /\ nworkers = 1
    /\ active_threads = 0
    /\ tasks = <<>>
    /\ wk = <<IdleWorker>>
    /\ fcs = [i \in 1..Len(disk) |-> NoFileContent]
    /\ file_contents = [i \in 1..Len(disk) |-> FALSE]
    /\ file_pages = [i \in 1..Len(disk) |-> <<>>]
    /\ page_results = [i \in 1..Len(disk) |-> <<>>]
    /\ pending_tasks = 0
    /\ caller = [pc |-> "start", i |-> 0]
    /\ results = <<>>
    /\ wbq = <<>>
    /\ disp = [pc |-> "wait", batch |-> <<>>]
    /\ hist = [input |-> disk,
               stored |-> [i \in 1..Len(disk) |-> {}],
               wb_count |-> [i \in 1..Len(disk) |-> 0],
               wrote |-> [i \in 1..Len(disk) |-> <<>>]]
    /\ ub = "none"
    /\ MatcherIdle
    /\ PipeIdle

SpecSum == InitSum /\ [][Next]_vars

\* the totals carried by the notifications of file i that are queued, taken
\* by the dispatcher, submitted as writeback tasks or being written
NotifiedTotals(i) ==
    {wbq[k].total : k \in {k \in 1..Len(wbq) : wbq[k].i = i}}
    \cup (IF disp.pc \in {"submit", "inline"}
          THEN {disp.batch[k].total : k \in {k \in 1..Len(disp.batch) : disp.batch[k].i = i}}
          ELSE {})
    \cup {tasks[k].total : k \in {k \in 1..Len(tasks) :
                                      tasks[k].type = "writeback" /\ tasks[k].i = i}}
    \cup {wk[w].total : w \in {w \in 1..nworkers : wk[w].pc = "writeback" /\ wk[w].i = i}}

\* the sum of the replacement counts of the pages of file i
SumOfPageCounts(i) ==
    SumSeq([j \in 1..Len(file_pages[i]) |-> ExpectedPage(i, j).n_rep])

\* C37: every notification of a file carries the sum of the replacement
\* counts of all its pages: the counter of pages remaining never runs ahead
\* of the pages that have added their count, the total always is the sum
\* over the pages that have, and a notification is enqueued only by the
\* task that saw the counter reach zero, with the total as it is then.
C37_NotifiedTotalIsSum ==
    /\ [](\A i \in Files :
              /\ NotifiedTotals(i) \subseteq {SumOfPageCounts(i)}
              /\ fcs[i].ref_cnt >= Len(file_pages[i]) - Cardinality(hist.stored[i])
              /\ fcs[i].total_replacements =
                     SumSeq([j \in 1..Len(file_pages[i]) |->
                                 IF file_pages[i][j].pid \in hist.stored[i]
                                 THEN ExpectedPage(i, j).n_rep ELSE 0]))
    /\ [][wbq' # wbq /\ Len(wbq') > Len(wbq) =>
              \E w \in 1..nworkers :
                  /\ wk[w].pc = "page_notify"
                  /\ wk[w].remaining = 0
                  /\ fcs[wk[w].i].ref_cnt = 0
                  /\ wbq' = Append(wbq, [i |-> wk[w].i,
                                         total |-> SumOfPageCounts(wk[w].i)])]_vars

\* a notification is queued for a file with two pages that both had
\* replacements
C37_Witness ==
    \E k \in 1..Len(wbq) :
        LET i == wbq[k].i
        IN  /\ Len(file_pages[i]) >= 2
            /\ Cardinality({j \in 1..Len(file_pages[i]) : ExpectedPage(i, j).n_rep > 0}) >= 2
            /\ wbq[k].total >= 2


\* the pages of file i whose task ended in the catch block, stored in
\* page_results or not yet
ThrownPages(i) ==
    FailedPages(i)
    \cup {wk[w].j : w \in {w \in 1..nworkers :
                              wk[w].pc = "page_done" /\ wk[w].i = i /\ ~wk[w].result.ok}}

\* file i is not and was not on its way to a writeback
NeverEnqueued(i) ==
    /\ hist.wb_count[i] = 0
    /\ NotifiedTotals(i) = {}
    /\ hist.wrote[i] = <<>>
    /\ disk[i] = hist.input[i]

\* every slot of processed_pages of file i holds the text of its page
AllSlotsFilled(i) ==
    /\ hist.stored[i] = {file_pages[i][j].pid : j \in 1..Len(file_pages[i])}
    /\ \A j \in 1..Len(file_pages[i]) : fcs[i].processed_pages[j] = ExpectedPage(i, j).text

\* C38 (as claimed): a file with a page task that threw is never enqueued
\* for writeback and its counter of remaining pages stays above zero; a
\* file is enqueued or written only with every slot filled.
C38_ThrownFileNeverEnqueued ==
    \A i \in Files :
        /\ ThrownPages(i) # {} => NeverEnqueued(i) /\ fcs[i].ref_cnt > 0
        /\ ~NeverEnqueued(i) => AllSlotsFilled(i)

\* C38 (amended): a file with a page task that threw is never enqueued for
\* writeback: its counter of remaining pages stays above zero, or it reached
\* zero in the task that threw while enqueueing, with every slot filled; a
\* file is enqueued or written only with every slot filled.
C38_ThrownFileNeverEnqueuedOrFull ==
    \A i \in Files :
        /\ ThrownPages(i) # {} =>
               /\ NeverEnqueued(i)
               /\ \/ fcs[i].ref_cnt > 0
                  \/ fcs[i].ref_cnt = 0 /\ AllSlotsFilled(i)
        /\ ~NeverEnqueued(i) => AllSlotsFilled(i) /\ ThrownPages(i) = {}

\* the run is over for a batch with a file one page of which threw before
\* filling its slot, after the other page had filled its own
C38_Witness ==
    /\ Quiescent
    /\ \E i \in Files :
           /\ ThrownPages(i) # {}
           /\ hist.stored[i] # {}
           /\ ~AllSlotsFilled(i)
           /\ fcs[i].ref_cnt > 0


(***************************************************************************)
(* SpecWrite: Spec with writebacks that fail.  FileProcessor::writeback    *)
(* returns false when the file cannot be opened, and does not look at the  *)
(* stream after writing; both callers drop the value.                      *)
(***************************************************************************)
\* the file after a writeback that failed: untouched when it could not be
\* opened, cut to nothing when it was opened and the writes failed
FailedWriteback(file, outcome) ==
    IF outcome = "open" THEN file ELSE [file EXCEPT !.bytes = <<>>]

\* a writeback task whose writeback fails
WorkerWritebackFail(w) ==
    /\ wk[w].pc = "writeback"
    /\ wk[w].total > 0
    /\ \E outcome \in {"open", "write"} :
           disk' = [disk EXCEPT ![wk[w].i] = FailedWriteback(@, outcome)]
    /\ wk' = [wk EXCEPT ![w] = IdleWorker]
    /\ active_threads' = active_threads - 1
    /\ UNCHANGED <<nworkers, tasks, fcs, file_contents, file_pages, page_results,
                   pending_tasks, caller, results, wbq, disp, hist, ub,
                   matcherVars, pipeVars>>

\* the writeback on the dispatcher thread fails
DispatchInlineFail ==
    /\ disp.pc = "inline"
    /\ Head(disp.batch).total > 0
    /\ \E outcome \in {"open", "write"} :
           disk' = [disk EXCEPT ![Head(disp.batch).i] = FailedWriteback(@, outcome)]
    /\ disp' = [pc |-> "wait", batch |-> <<>>]
    /\ UNCHANGED <<nworkers, active_threads, tasks, wk, fcs, file_contents, file_pages,
                   page_results, pending_tasks, caller, results, wbq, hist, ub,
                   matcherVars, pipeVars>>

NextWrite ==
    \/ Next
    \/ \E w \in 1..nworkers : WorkerWritebackFail(w)
    \/ DispatchInlineFail

\* the batches tried with failing writebacks: a file with a replacement,
\* alone and next to a file without any
WriteBatches == {<<RuleFile>>, <<RuleFile, PlainFile>>, <<PlainFile, RuleFile>>}

InitWrite == Init /\ disk \in WriteBatches

SpecWrite == InitWrite /\ [][NextWrite]_vars

\* the notification of file i has been handled and the writeback failed:
\* there were replacements to write and nothing was written
WritebackFailed(i) ==
    /\ hist.wb_count[i] > 0
    /\ InFlight(i) = 0
    /\ fcs[i].total_replacements > 0
    /\ hist.wrote[i] = <<>>

\* C34: a file whose writeback has failed by the time the results are
\* collected is returned with ok = false.
C34_WritebackFailureReported ==
    [][(caller.pc = "aggregate" /\ caller'.pc = "returned") =>
          \A i \in Files : WritebackFailed(i) => ~results'[i].ok]_vars


(***************************************************************************)
(* SpecParse: config_parser::Parser on a rule file made of PROTECT and     *)
(* PROTECT_CONTENT statements, one statement per step.  A statement is its *)
(* keyword and the key/value arguments parse_args collected; a value is    *)
(* the text between the quotes, which may be empty.                        *)
(***************************************************************************)
MaxStatements == 2

\* the values of the string tokens
MarkerValues == {<<>>, <<"#">>}

\* the arguments of a statement: any of the keys may be missing
KwargsOver(keys) == UNION {[present -> MarkerValues] : present \in SUBSET keys}

ParseStatements ==
    {[cmd |-> "PROTECT", kwargs |-> kw] : kw \in KwargsOver({"START_MARKER", "END_MARKER"})}
    \cup {[cmd |-> "PROTECT_CONTENT", kwargs |-> kw] : kw \in KwargsOver({"CONTENT"})}

\* Parser::to_tstr on ASCII bytes: one scalar per byte
to_tstr(str) == [k \in 1..Len(str) |-> str[k]]

\* Parser::parse_protect after parse_args: a missing key is an error, any
\* two values make a region
parse_protect(kwargs) ==
    IF {"START_MARKER", "END_MARKER"} \subseteq DOMAIN kwargs
    THEN [ok |-> TRUE,
          region |-> <<to_tstr(kwargs["START_MARKER"]), to_tstr(kwargs["END_MARKER"])>>]
    ELSE [ok |-> FALSE, region |-> <<>>]

\* Parser::parse_protect_content: the region (CONTENT, "")
parse_protect_content(kwargs) ==
    IF "CONTENT" \in DOMAIN kwargs
    THEN [ok |-> TRUE, region |-> <<to_tstr(kwargs["CONTENT"]), to_tstr(<<>>)>>]
    ELSE [ok |-> FALSE, region |-> <<>>]

InitParse ==
    /\ MatcherIdle
    /\ ProcIdle
    /\ \E n \in 0..MaxStatements : \E stmts \in [1..n -> ParseStatements] :
           pipe = [pc |-> "parse", stmts |-> stmts, idx |-> 0, regions |-> <<>>,
                   errors |-> 0]

\* Parser::parse_statement for the next statement; after the last one the
\* regions are what the FileProcessor is built with
ParseStatement ==
    /\ pipe.pc = "parse"
    /\ IF pipe.idx = Len(pipe.stmts)
       THEN pipe' = [pipe EXCEPT !.pc = "parsed"]
       ELSE LET stmt == pipe.stmts[pipe.idx + 1]
                r == IF stmt.cmd = "PROTECT" THEN parse_protect(stmt.kwargs)
                     ELSE parse_protect_content(stmt.kwargs)
            IN  pipe' = [pipe EXCEPT !.idx = @ + 1,
                                     !.regions = IF r.ok THEN Append(@, r.region) ELSE @,
                                     !.errors = IF r.ok THEN @ ELSE @ + 1]
    /\ UNCHANGED <<matcherVars, procVars>>

NextParse == ParseStatement

SpecParse == InitParse /\ [][NextParse]_vars

\* the statement about to be parsed gives an empty START_MARKER or CONTENT
EmptyStartHere ==
    /\ pipe.pc = "parse"
    /\ pipe.idx < Len(pipe.stmts)
    /\ LET stmt == pipe.stmts[pipe.idx + 1]
           key == IF stmt.cmd = "PROTECT" THEN "START_MARKER" ELSE "CONTENT"
       IN  key \in DOMAIN stmt.kwargs /\ stmt.kwargs[key] = <<>>

\* C35: a PROTECT statement with an empty START_MARKER and a
\* PROTECT_CONTENT statement with an empty CONTENT are reported as errors and
\* add no region, so no region of the list has an empty start marker.
C35_EmptyStartRejected ==
    /\ [][EmptyStartHere =>
              /\ pipe'.errors = pipe.errors + 1
              /\ pipe'.regions = pipe.regions]_vars
    /\ [](pipe.pc \in {"parse", "parsed"} =>
              \A k \in 1..Len(pipe.regions) : pipe.regions[k][1] # <<>>)

====
